---- MODULE Spec2Model ----
(***************************************************************************)
(* Model of the point-of-sale client: the usePOSStore cart store, the POS  *)
(* page with its split-payment dialog, the CheckoutPanel component, the    *)
(* shift dialog and the stock read-modify-write fallbacks, together with   *)
(* the backend tables they write (sales, products, cashier_shifts,         *)
(* suspended_orders).                                                      *)
(*                                                                         *)
(* Money is counted in cents; catalogue prices and typed amounts are       *)
(* multiples of 100 so that (subtotal * taxRate) / 100 is exact.           *)
(***************************************************************************)
EXTENDS Integers, Sequences, FiniteSets, TLC

VARIABLES
    view,               \* which component tree is mounted in the browser session
    cart,               \* usePOSStore.cart
    selectedCustomer,   \* usePOSStore.selectedCustomer (customer id or NULL)
    paymentMethod,      \* usePOSStore.paymentMethod
    amountPaid,         \* usePOSStore.amountPaid
    discount,           \* usePOSStore.discount
    calculator,         \* CheckoutPanel useState calculatorDisplay, and
                        \* whether its reset timer is pending
    posDiscount,        \* POSPage useState discount
    showSplitPayment,   \* POSPage useState showSplitPayment
    showReceipt,        \* POSPage useState showReceipt
    receiptData,        \* POSPage useState receiptData (NULL or the sale number)
    payments,           \* SplitPaymentModal useState payments
    stock,              \* products.stock_quantity per product
    sales,              \* number of rows in the sales table
    sale_items,         \* number of sales whose sale_items rows were inserted
    outstanding_balance,\* customers.outstanding_balance per customer
    suspended_orders,   \* rows of the suspended_orders table
    cashier_shifts,     \* rows of the cashier_shifts table
    today,              \* the current calendar day
    currentShiftId,     \* usePOSStore.currentShiftId, per browser session
    currentShift,       \* ShiftModal 'current-shift' query cache, per session
    showShiftModal,     \* POSPage useState showShiftModal, per session
    run,                \* per session: position of a stock-adjusting mutation
    auth,               \* AuthContext value: loading, user, profile
    path,               \* the browser location the router matches
    file,               \* CSVImport useState file: its text, if one is chosen
    categories,         \* the ['categories'] query: loaded or not, and its rows
    catalogue,          \* rows of the products table, as the inventory page has them
    imported,           \* what the last importMutation did
    download,           \* the file exportProductsToCSV last handed to the browser
    suspendedOrders,    \* the ['suspended-orders'] query: loaded or not, its rows
    order_seq,          \* the number of suspended_orders rows ever inserted
    showSuspendedOrders,\* POSPage useState showSuspendedOrders
    toast,              \* the toast a mutation last raised
    closeForm,          \* ShiftModal close form: the open shift the query
                        \* returned and useState closingBalance
    session,            \* the user id of the session supabase.auth holds
    profiles,           \* rows of the profiles table, per user id
    confirmDelete,      \* UsersPage useState confirmDelete: a user id or NULL
    mySales,            \* the ['my-sales'] query: loaded or not, its creditSales
    clearing,           \* MySalesPage useState clearingCredit and paymentAmount,
                        \* and what the last Confirm Payment came to
    purchase_orders,    \* purchase_orders.status per order
    purchaseOrders,     \* the ['purchase-orders'] query: loaded or not, and
                        \* the status of each order as last fetched
    receiving,          \* per receivePO.mutate call: the await it has reached
    receive_seq,        \* the number of receivePO.mutate calls made
    last                \* the last handler that ran: its name, arguments and
                        \* outcome, and the sales row it inserted if any

vars == <<view, cart, selectedCustomer, paymentMethod, amountPaid, discount,
          calculator,
          posDiscount, showSplitPayment, showReceipt, receiptData, payments,
          stock, sales, sale_items, outstanding_balance, suspended_orders,
          cashier_shifts, today, currentShiftId, currentShift, showShiftModal,
          run, last, auth, path, file, categories, catalogue, imported,
          download, suspendedOrders, order_seq, showSuspendedOrders, toast,
          closeForm, session, profiles, confirmDelete, mySales, clearing,
          purchase_orders, purchaseOrders, receiving, receive_seq>>

\* the state of the checkout, the shifts and the tables behind them
checkoutVars == <<view, cart, selectedCustomer, paymentMethod, amountPaid,
                  discount, calculator, posDiscount, showSplitPayment,
                  showReceipt, receiptData, payments, stock, sales, sale_items,
                  outstanding_balance, suspended_orders, cashier_shifts, today,
                  currentShiftId, currentShift, showShiftModal, run, last>>

\* the state outside the checkout: AuthContext and the router
authVars == <<auth, path>>
\* the inventory page's CSV import and export
csvVars == <<file, categories, catalogue, imported, download>>
\* the suspended orders of the POS page, and the toasts of the mutations
holdVars == <<suspendedOrders, order_seq, showSuspendedOrders, toast>>
\* the state of the other pages and dialogs
closeVars == <<closeForm, session>>
usersVars == <<profiles, confirmDelete>>
creditVars == <<mySales, clearing>>
\* the purchase orders page
poVars == <<purchase_orders, purchaseOrders, receiving, receive_seq>>
pagesVars == <<closeVars, usersVars, creditVars, poVars>>
appVars == <<authVars, csvVars, holdVars, pagesVars>>
\* everything but the state a group of handlers works on
exceptAuth == <<checkoutVars, csvVars, holdVars, pagesVars>>
exceptCsv == <<checkoutVars, authVars, holdVars, pagesVars>>
exceptPages == <<checkoutVars, authVars, csvVars, holdVars>>

storeVars == <<cart, selectedCustomer, paymentMethod, amountPaid, discount>>
pageVars  == <<posDiscount, showSplitPayment, showReceipt, receiptData,
               payments>>
dbVars    == <<stock, sales, sale_items, outstanding_balance, suspended_orders>>
shiftVars == <<cashier_shifts, today, currentShiftId, currentShift,
               showShiftModal>>

NULL == "null"

\* the number NaN, which parseFloat returns for text that is not a number
NaN == 0 - 999999

\* a < b and a - b on numbers, where NaN compares false and propagates
Less(a, b) == a # NaN /\ b # NaN /\ a < b
Minus(a, b) == IF a = NaN \/ b = NaN THEN NaN ELSE a - b

----------------------------------------------------------------------------
(* Bounds and catalogue *)

Products == {"p1", "p2"}
Customers == {"c1"}
Sessions == {"a", "b"}

\* products.price of the catalogue
ProductPrice == [p \in Products |-> IF p = "p1" THEN 100 ELSE 200]
\* products.stock_quantity when a checkout session starts: one product with a
\* single unit left, one sold out
InitStock == [p \in Products |-> IF p = "p1" THEN 1 ELSE 0]

MaxQty == 2          \* largest quantity a cart line is driven to
MaxSales == 1        \* sales rows written in one run
MaxPayments == 2     \* payment entries in the split-payment dialog
MaxSuspended == 1    \* suspended orders held at once
MaxShifts == 2       \* cashier_shifts rows inserted in one run
MaxDay == 2          \* calendar days seen in one run
MaxKeys == 3         \* keys on the calculator display at once
MaxOrders == 2       \* suspended orders ever inserted
MaxRows == 2         \* data lines of a CSV file
MaxCatalogue == 2    \* rows of the products table

PriceInputs == {-100, 0}        \* values typed into a price field
AmountInputs == {0, 100}         \* values typed into an amount field
AmountRange == {0, 100, 200}     \* amounts a quick-fill button may enter
DiscountInputs == {0, 100}       \* values typed into a discount field
TaxRates == {0, 16}              \* tax rates handed to the getters
PaymentTypes == {"cash", "card", "credit"}
PaymentMethods == {"cash", "card", "credit", "mobile_money"}

----------------------------------------------------------------------------
(* usePOSStore: pure functions of the store state *)

\* state.cart.find((i) => i.product_id === productId) is defined
HasLine(c, productId) == \E i \in 1..Len(c) : c[i].product_id = productId

\* Array.prototype.filter
RECURSIVE Filter(_, _)
Filter(c, productId) ==
    IF c = <<>> THEN <<>>
    ELSE IF Head(c).product_id # productId
         THEN <<Head(c)>> \o Filter(Tail(c), productId)
         ELSE Filter(Tail(c), productId)

\* addToCart without the lookup of an existing line
addToCart_AlwaysAppend(c, item) ==
    Append(c, [item EXCEPT !.quantity = 1, !.subtotal = item.price])

addToCart(c, item) ==
    IF HasLine(c, item.product_id)
    THEN [i \in 1..Len(c) |->
            IF c[i].product_id = item.product_id
            THEN [c[i] EXCEPT !.quantity = c[i].quantity + 1,
                              !.subtotal = (c[i].quantity + 1) * c[i].price]
            ELSE c[i]]
    ELSE Append(c, [item EXCEPT !.quantity = 1, !.subtotal = item.price])

removeFromCart(c, productId) == Filter(c, productId)

\* updateQuantity that removes the line only for a negative quantity
updateQuantity_KeepsZero(c, productId, quantity) ==
    IF quantity < 0
    THEN removeFromCart(c, productId)
    ELSE [i \in 1..Len(c) |->
            IF c[i].product_id = productId
            THEN [c[i] EXCEPT !.quantity = quantity,
                              !.subtotal = quantity * c[i].price]
            ELSE c[i]]

updateQuantity(c, productId, quantity) ==
    IF quantity <= 0
    THEN removeFromCart(c, productId)
    ELSE [i \in 1..Len(c) |->
            IF c[i].product_id = productId
            THEN [c[i] EXCEPT !.quantity = quantity,
                              !.subtotal = quantity * c[i].price]
            ELSE c[i]]

updatePrice(c, productId, price) ==
    IF price < 0
    THEN c
    ELSE [i \in 1..Len(c) |->
            IF c[i].product_id = productId
            THEN [c[i] EXCEPT !.price = price,
                              !.subtotal = c[i].quantity * price]
            ELSE c[i]]

\* cart.reduce((sum, item) => sum + item.subtotal, 0): a left fold
RECURSIVE Reduce(_, _)
Reduce(c, sum) == IF c = <<>> THEN sum ELSE Reduce(Tail(c), sum + Head(c).subtotal)

getSubtotal(c) == Reduce(c, 0)
getTaxAmount(c, taxRate) == (getSubtotal(c) * taxRate) \div 100
\* getTotal that adds the discount
getTotal_AddsDiscount(c, d, taxRate) == getSubtotal(c) + getTaxAmount(c, taxRate) + d

getTotal(c, d, taxRate) == getSubtotal(c) + getTaxAmount(c, taxRate) - d
getChange(c, d, paid, taxRate) == Minus(paid, getTotal(c, d, taxRate))

\* The calculator display as the keys that produced it: a number, the minus
\* sign, the text 'Error', or the text of a function
Num(n) == [k |-> "num", n |-> n]
MinusKey == [k |-> "-", n |-> 0]
ErrorText == [k |-> "Error", n |-> 0]
FunctionText == [k |-> "function", n |-> 0]

\* Text is a sequence of characters; a character is a one-character string,
\* or a longer string standing for a word without commas, quotes, spaces or
\* line breaks.
NoFile == [chosen |-> FALSE, text |-> <<>>, products |-> <<>>]
FileOf(text) == [chosen |-> TRUE, text |-> text, products |-> <<>>]

\* the categories table
CategoryRows == <<[id |-> "cat1", name |-> <<"F", "d">>]>>

\* no import has run yet
\* null in the place of a number
JsonNull == NaN - 1

\* the close form has no open shift to show
NoShiftRow == [open |-> FALSE, opening_balance |-> 0, cash_sales_total |-> JsonNull]

\* no toast on the screen
NoToast == [kind |-> "none", by |-> NULL, failed |-> FALSE]

\* the purchase orders, and the calls of receivePO.mutate that can be in
\* flight at once
PurchaseOrderIds == {"po1", "po2"}
Calls == {"m1", "m2"}

\* no call of receivePO.mutate in this place
NotReceiving == [pc |-> "idle", po |-> NULL, items |-> <<>>, i |-> 0, read |-> 0]

NotRun == [ran |-> FALSE, parsed |-> FALSE, issued |-> FALSE, ok |-> FALSE,
           rows |-> <<>>, errors |-> {}, count |-> 0]

\* profiles.role
UserRoles == {"owner", "admin", "accountant", "cashier"}

\* AuthContext without a profile row, and with one
NoProfile == [exists |-> FALSE, role |-> NULL, is_active |-> FALSE]
ProfileOf(role, active) == [exists |-> TRUE, role |-> role, is_active |-> active]

\* the cashier at the till: signed in, profile loaded and active
SignedIn == [loading |-> FALSE, user |-> "u1", profile |-> ProfileOf("cashier", TRUE)]

\* the CartItem a product tile hands to the store
CartItemOf(p) ==
    [product_id |-> p, product_name |-> p, sku |-> p,
     price |-> ProductPrice[p], quantity |-> 1, subtotal |-> ProductPrice[p],
     stock_available |-> stock[p]]

----------------------------------------------------------------------------
(* Initial state: the store as created, the page as mounted, the tables *)

\* the signed-in cashier; both browser sessions belong to the same cashier
Cashier == "u1"

Idle == [pc |-> "idle", kind |-> NULL, items |-> <<>>, i |-> 0, read |-> 0,
         fell |-> {}, reads |-> [p \in Products |-> 0]]

\* The record of the cart or checkout handler that ran last.  settled is TRUE from a successful
\* completeSale or suspendOrder until the next product added or order resumed.
Last(op, arg, ok) ==
    [op |-> op, arg |-> arg, ok |-> ok,
     settled |-> IF ok /\ op \in {"addToCart", "resumeOrder"} THEN FALSE
                 ELSE IF ok /\ op \in {"completeSale", "suspendOrder"} THEN TRUE
                 ELSE last.settled]

\* any other handler: the record keeps no detail of it
Other(op) == [op |-> "other", arg |-> NULL, ok |-> TRUE, settled |-> last.settled]

\* the ids of the users
UserIds == {"u1", "u2", "u3"}

\* a row of the profiles table; present is FALSE once the user is deleted
Row(role, active) == [role |-> role, is_active |-> active, present |-> TRUE]

\* the profiles table of a shop: the cashier, an owner and an admin
Staff == [u \in UserIds |-> IF u = "u1" THEN Row("cashier", TRUE)
                            ELSE IF u = "u2" THEN Row("owner", TRUE)
                            ELSE Row("admin", TRUE)]

\* no sale is being cleared
NoSale == [id |-> NULL, customer_id |-> NULL, payment_method |-> NULL,
           credit_amount |-> JsonNull, total |-> 0]
NotClearing == [open |-> FALSE, sale |-> NoSale, paymentAmount |-> <<>>,
                result |-> "none", amount |-> 0, read |-> 0]

\* the page as mounted: nothing in the cart, no shift id, no dialog, the
\* cashier signed in
AsMounted == [cart |-> <<>>, currentShiftId |-> NULL, showSplitPayment |-> FALSE,
              auth |-> SignedIn, session |-> Cashier, profiles |-> Staff]

\* the tables hold the stock st and the shifts sh, and the page holds what
\* given says
InitFrom(st, sh, given) ==
    /\ view \in {"POSPage", "CheckoutPanel"}
    /\ cart = given.cart
    /\ selectedCustomer = NULL
    /\ paymentMethod = "cash"
    /\ amountPaid = 0
    /\ discount = 0
    /\ calculator = [display |-> <<Num(0)>>, reset |-> FALSE]
    /\ auth = given.auth
    /\ session = given.session
    /\ profiles = given.profiles
    /\ confirmDelete = NULL
    /\ mySales = [loaded |-> FALSE, creditSales |-> <<>>]
    /\ clearing = NotClearing
    /\ purchase_orders = [po \in PurchaseOrderIds |-> "pending"]
    /\ purchaseOrders = [loaded |-> FALSE,
                         status |-> [po \in PurchaseOrderIds |-> "pending"]]
    /\ receiving = [m \in Calls |-> NotReceiving]
    /\ receive_seq = 0
    /\ path = "/pos"
    /\ file = NoFile
    /\ categories = [loaded |-> FALSE, rows |-> CategoryRows]
    /\ catalogue = <<>>
    /\ imported = NotRun
    /\ download = NoFile
    /\ suspendedOrders = [loaded |-> FALSE, rows |-> <<>>]
    /\ order_seq = 0
    /\ showSuspendedOrders = FALSE
    /\ toast = NoToast
    /\ closeForm = [shift |-> NoShiftRow, closingBalance |-> <<>>]
    /\ posDiscount = 0
    /\ showSplitPayment = given.showSplitPayment
    /\ showReceipt = FALSE
    /\ receiptData = NULL
    /\ payments = <<[type |-> "cash", amount |-> 0]>>
    /\ stock = st
    /\ sales = 0
    /\ sale_items = 0
    /\ outstanding_balance = [c \in Customers |-> 0]
    /\ suspended_orders = <<>>
    /\ cashier_shifts = sh
    /\ today = 1
    /\ currentShiftId = [s \in Sessions |->
                            IF s = "a" THEN given.currentShiftId ELSE NULL]
    /\ currentShift = [s \in Sessions |-> "loading"]
    /\ showShiftModal = [s \in Sessions |-> FALSE]
    /\ run = [s \in Sessions |-> Idle]
    /\ last = [op |-> "init", arg |-> NULL, ok |-> TRUE, settled |-> FALSE]

\* the tables hold the stock st and the shifts sh when the session starts
InitWith(st, sh) == InitFrom(st, sh, AsMounted)

\* the dialogs are full-screen overlays (fixed inset-0): while one is shown the
\* page underneath takes no clicks
NoModal == ~showSplitPayment /\ ~showReceipt /\ ~showShiftModal["a"]

OnPOS == view = "POSPage" /\ NoModal
OnPanel == view = "CheckoutPanel"

\* quantity of the line of product p, 0 when there is none
QtyOf(c, p) == IF HasLine(c, p)
               THEN c[CHOOSE i \in 1..Len(c) : c[i].product_id = p].quantity
               ELSE 0

----------------------------------------------------------------------------
(* Cart handlers of the POS page (inline cart table and product tiles) *)

\* POSPage.addToCart(product)
POSAddToCart(p) ==
    /\ OnPOS
    /\ QtyOf(cart, p) < MaxQty
    /\ IF stock[p] <= 0
       THEN /\ last' = Last("addToCart", p, FALSE)
            /\ UNCHANGED cart
       ELSE /\ cart' = addToCart(cart, CartItemOf(p))
            /\ last' = Last("addToCart", p, TRUE)
    /\ UNCHANGED <<view, appVars, calculator, selectedCustomer, paymentMethod, amountPaid, discount,
                   pageVars, dbVars, shiftVars, run>>

\* quantity input of a cart row: updateQuantity(id, parseInt(value) || 0)
POSUpdateQuantity(p, q) ==
    /\ OnPOS
    /\ HasLine(cart, p)
    /\ cart' = updateQuantity(cart, p, q)
    /\ last' = Last("updateQuantity", <<p, q>>, TRUE)
    /\ UNCHANGED <<view, appVars, calculator, selectedCustomer, paymentMethod, amountPaid, discount,
                   pageVars, dbVars, shiftVars, run>>

\* price input of a cart row: updatePrice(id, parseFloat(value) || 0)
POSUpdatePrice(p, price) ==
    /\ OnPOS
    /\ HasLine(cart, p)
    /\ cart' = updatePrice(cart, p, price)
    /\ last' = Last("updatePrice", <<p, price>>, price >= 0)
    /\ UNCHANGED <<view, appVars, calculator, selectedCustomer, paymentMethod, amountPaid, discount,
                   pageVars, dbVars, shiftVars, run>>

\* the X button of a cart row
POSRemoveFromCart(p) ==
    /\ OnPOS
    /\ HasLine(cart, p)
    /\ cart' = removeFromCart(cart, p)
    /\ last' = Last("removeFromCart", p, TRUE)
    /\ UNCHANGED <<view, appVars, calculator, selectedCustomer, paymentMethod, amountPaid, discount,
                   pageVars, dbVars, shiftVars, run>>

\* usePOSStore.clearCart: resets everything but currentShiftId
clearCart ==
    /\ cart' = <<>>
    /\ selectedCustomer' = NULL
    /\ paymentMethod' = "cash"
    /\ amountPaid' = 0
    /\ discount' = 0

\* the Cancel button: clearCart(); setDiscount(0)
POSCancel ==
    /\ OnPOS
    /\ clearCart
    /\ posDiscount' = 0
    /\ last' = Last("clearCart", NULL, TRUE)
    /\ UNCHANGED <<view, appVars, calculator, showSplitPayment, showReceipt, receiptData, payments,
                   dbVars, shiftVars, run>>

\* the discount input of the page: setDiscount(Number(value)) on local state
POSSetDiscount(d) ==
    /\ OnPOS
    /\ posDiscount' = d
    /\ last' = Other("setDiscount")
    /\ UNCHANGED <<view, appVars, calculator, storeVars, showSplitPayment, showReceipt, receiptData,
                   payments, dbVars, shiftVars, run>>

\* the customer select of either view: setSelectedCustomer(customer || null)
SelectCustomer(c) ==
    /\ OnPOS \/ OnPanel
    /\ selectedCustomer' = c
    /\ last' = Other("setSelectedCustomer")
    /\ UNCHANGED <<view, appVars, calculator, cart, paymentMethod, amountPaid, discount, pageVars,
                   dbVars, shiftVars, run>>

----------------------------------------------------------------------------
(* ProductGrid, ShoppingCart and CheckoutPanel inputs *)

\* ProductGrid.handleAddToCart(product)
handleAddToCart(p) ==
    /\ OnPanel
    /\ QtyOf(cart, p) < MaxQty
    /\ IF stock[p] <= 0
       THEN /\ last' = Last("addToCart", p, FALSE)
            /\ UNCHANGED cart
       ELSE /\ cart' = addToCart(cart, CartItemOf(p))
            /\ last' = Last("addToCart", p, TRUE)
    /\ UNCHANGED <<view, appVars, calculator, selectedCustomer, paymentMethod, amountPaid, discount,
                   pageVars, dbVars, shiftVars, run>>

\* ShoppingCart minus button: updateQuantity(id, quantity - 1)
CartMinus(p) ==
    /\ OnPanel
    /\ HasLine(cart, p)
    /\ cart' = updateQuantity(cart, p, QtyOf(cart, p) - 1)
    /\ last' = Last("updateQuantity", <<p, QtyOf(cart, p) - 1>>, TRUE)
    /\ UNCHANGED <<view, appVars, calculator, selectedCustomer, paymentMethod, amountPaid, discount,
                   pageVars, dbVars, shiftVars, run>>

\* ShoppingCart plus button, disabled when quantity >= stock_available
CartPlus(p) ==
    /\ OnPanel
    /\ HasLine(cart, p)
    /\ \E i \in 1..Len(cart) :
          cart[i].product_id = p /\ ~(cart[i].quantity >= cart[i].stock_available)
    /\ QtyOf(cart, p) < MaxQty
    /\ cart' = updateQuantity(cart, p, QtyOf(cart, p) + 1)
    /\ last' = Last("updateQuantity", <<p, QtyOf(cart, p) + 1>>, TRUE)
    /\ UNCHANGED <<view, appVars, calculator, selectedCustomer, paymentMethod, amountPaid, discount,
                   pageVars, dbVars, shiftVars, run>>

\* ShoppingCart quantity input: updateQuantity(id, parseInt(value) || 0)
CartSetQuantity(p, q) ==
    /\ OnPanel
    /\ HasLine(cart, p)
    /\ cart' = updateQuantity(cart, p, q)
    /\ last' = Last("updateQuantity", <<p, q>>, TRUE)
    /\ UNCHANGED <<view, appVars, calculator, selectedCustomer, paymentMethod, amountPaid, discount,
                   pageVars, dbVars, shiftVars, run>>

\* ShoppingCart price input
CartSetPrice(p, price) ==
    /\ OnPanel
    /\ HasLine(cart, p)
    /\ cart' = updatePrice(cart, p, price)
    /\ last' = Last("updatePrice", <<p, price>>, price >= 0)
    /\ UNCHANGED <<view, appVars, calculator, selectedCustomer, paymentMethod, amountPaid, discount,
                   pageVars, dbVars, shiftVars, run>>

\* ShoppingCart trash button
CartRemove(p) ==
    /\ OnPanel
    /\ HasLine(cart, p)
    /\ cart' = removeFromCart(cart, p)
    /\ last' = Last("removeFromCart", p, TRUE)
    /\ UNCHANGED <<view, appVars, calculator, selectedCustomer, paymentMethod, amountPaid, discount,
                   pageVars, dbVars, shiftVars, run>>

\* CheckoutPanel payment-method buttons
SetPaymentMethod(m) ==
    /\ OnPanel
    /\ paymentMethod' = m
    /\ last' = Other("setPaymentMethod")
    /\ UNCHANGED <<view, appVars, calculator, cart, selectedCustomer, amountPaid, discount, pageVars,
                   dbVars, shiftVars, run>>

\* CheckoutPanel amount input, rendered for cash only
SetAmountPaid(a) ==
    /\ OnPanel
    /\ paymentMethod = "cash"
    /\ amountPaid' = a
    /\ last' = Other("setAmountPaid")
    /\ UNCHANGED <<view, appVars, calculator, cart, selectedCustomer, paymentMethod, discount,
                   pageVars, dbVars, shiftVars, run>>

\* CheckoutPanel discount input: store discount
SetDiscount(d) ==
    /\ OnPanel
    /\ discount' = d
    /\ last' = Other("setDiscount")
    /\ UNCHANGED <<view, appVars, calculator, cart, selectedCustomer, paymentMethod, amountPaid,
                   pageVars, dbVars, shiftVars, run>>

\* Whether Function('return (' + display + ')') compiles: numbers separated by
\* single minus signs, with an optional leading sign, or one identifier
RECURSIVE WellFormed(_, _)
WellFormed(d, i) ==
    IF i > Len(d) THEN FALSE
    ELSE IF d[i].k = "num" THEN
            \/ i = Len(d)
            \/ /\ i < Len(d)
               /\ d[i + 1].k = "-"
               /\ WellFormed(d, i + 2)
    ELSE IF d[i].k = "-" THEN i = 1 /\ Len(d) > 1 /\ d[2].k = "num" /\ WellFormed(d, 2)
    ELSE FALSE

Compiles(d) == d = <<ErrorText>> \/ WellFormed(d, 1)

\* the value of a well-formed display
RECURSIVE Evaluate(_, _, _)
Evaluate(d, i, sign) ==
    IF i > Len(d) THEN 0
    ELSE IF d[i].k = "-" THEN Evaluate(d, i + 1, 0 - 1)
    ELSE sign * d[i].n + Evaluate(d, i + 1, 1)

\* result.toString() as a display
Shown(n) == IF n < 0 THEN <<MinusKey, Num(0 - n)>> ELSE <<Num(n)>>

\* CheckoutPanel.handleCalculatorClick; the calculator is rendered for cash
handleCalculatorClick(value) ==
    /\ OnPanel
    /\ paymentMethod = "cash"
    /\ IF value = "C"
       THEN /\ calculator' = [calculator EXCEPT !.display = <<Num(0)>>]
            /\ UNCHANGED amountPaid
       ELSE IF value = "="
       THEN IF calculator.display = <<ErrorText>>
            \* the identifier Error evaluates to the Error constructor
            THEN /\ calculator' = [calculator EXCEPT !.display = <<FunctionText>>]
                 /\ amountPaid' = NaN
            ELSE IF Compiles(calculator.display)
            THEN /\ calculator' = [calculator EXCEPT !.display =
                                       Shown(Evaluate(calculator.display, 1, 1))]
                 /\ amountPaid' = Evaluate(calculator.display, 1, 1)
            ELSE /\ calculator' = [display |-> <<ErrorText>>, reset |-> TRUE]
                 /\ UNCHANGED amountPaid
       ELSE /\ Len(calculator.display) < MaxKeys
            /\ LET key == IF value = "-" THEN MinusKey ELSE Num(100) IN
               calculator' = [calculator EXCEPT !.display =
                   IF calculator.display \in {<<Num(0)>>, <<ErrorText>>}
                   THEN <<key>>
                   ELSE Append(calculator.display, key)]
            \* digits after a number extend that number: left out
            /\ value = "100" =>
                  calculator.display[Len(calculator.display)].k # "num"
                  \/ calculator.display = <<Num(0)>>
            /\ UNCHANGED amountPaid
    /\ last' = Other("calculator")
    /\ UNCHANGED <<view, appVars, cart, selectedCustomer, paymentMethod, discount,
                   pageVars, dbVars, shiftVars, run>>

\* setTimeout(() => setCalculatorDisplay('0'), 1000) of a failed evaluation
CalculatorReset ==
    /\ calculator.reset
    /\ calculator' = [display |-> <<Num(0)>>, reset |-> FALSE]
    /\ last' = Other("calculatorReset")
    /\ UNCHANGED <<view, appVars, storeVars, pageVars, dbVars, shiftVars, run>>

----------------------------------------------------------------------------
(* Shifts: POSPage.checkShift and ShiftModal, per browser session *)

LOADING == "loading"

\* ids of the open cashier_shifts rows of a cashier on a day
OpenShiftsOf(uid, day) ==
    {i \in 1..Len(cashier_shifts) :
        /\ cashier_shifts[i].cashier_id = uid
        /\ cashier_shifts[i].shift_date = day
        /\ cashier_shifts[i].status = "open"}

\* .single() and .maybeSingle(): the row when exactly one matches, else no data
SingleOpenShift(uid, day) ==
    IF Cardinality(OpenShiftsOf(uid, day)) = 1
    THEN cashier_shifts[CHOOSE i \in OpenShiftsOf(uid, day) : TRUE].id
    ELSE NULL

\* the mount effect of the POS page
checkShift(s) ==
    /\ IF SingleOpenShift(Cashier, today) # NULL
       THEN /\ currentShiftId' = [currentShiftId EXCEPT ![s] = SingleOpenShift(Cashier, today)]
            /\ UNCHANGED showShiftModal
       ELSE /\ showShiftModal' = [showShiftModal EXCEPT ![s] = TRUE]
            /\ UNCHANGED currentShiftId
    /\ last' = Other("checkShift")
    /\ UNCHANGED <<view, appVars, calculator, storeVars, pageVars, dbVars, cashier_shifts, today,
                   currentShift, run>>

\* the 'current-shift' query of the dialog, enabled while the dialog is open;
\* it runs when the dialog opens and again after every invalidation
fetchCurrentShift(s) ==
    /\ showShiftModal[s]
    /\ currentShift[s] # SingleOpenShift(Cashier, today)
    /\ currentShift' = [currentShift EXCEPT ![s] = SingleOpenShift(Cashier, today)]
    /\ last' = Other("fetchCurrentShift")
    /\ UNCHANGED <<view, appVars, calculator, storeVars, pageVars, dbVars, cashier_shifts, today,
                   currentShiftId, showShiftModal, run>>

\* POSPage onClose handed to the dialog: it closes only when a shift id is held
ShiftModalAfterClose(s, heldShiftId) ==
    IF heldShiftId = NULL
    THEN showShiftModal
    ELSE [showShiftModal EXCEPT ![s] = FALSE]

\* the X button of the shift dialog
ShiftModalClose(s) ==
    /\ showShiftModal[s]
    /\ showShiftModal' = ShiftModalAfterClose(s, currentShiftId[s])
    /\ last' = Other("shiftModalClose")
    /\ UNCHANGED <<view, appVars, calculator, storeVars, pageVars, dbVars, cashier_shifts, today,
                   currentShiftId, currentShift, run>>

\* the Manage Shift button of the top bar
ManageShift(s) ==
    /\ ~showShiftModal[s]
    /\ s = "a" => NoModal
    /\ showShiftModal' = [showShiftModal EXCEPT ![s] = TRUE]
    /\ last' = Other("manageShift")
    /\ UNCHANGED <<view, appVars, calculator, storeVars, pageVars, dbVars, cashier_shifts, today,
                   currentShiftId, currentShift, run>>

\* ShiftModal.openShift: the open form is rendered when the query holds no row.
\* The insert names no status; the table's default for it is 'open'.
openShift(s, amount) ==
    /\ showShiftModal[s]
    /\ currentShift[s] = NULL
    /\ Len(cashier_shifts) < MaxShifts
    /\ \E error \in BOOLEAN :
        IF amount < 0 \/ error
        THEN /\ last' = Other("openShift")
             /\ UNCHANGED <<cashier_shifts, currentShiftId, showShiftModal>>
        ELSE /\ cashier_shifts' = Append(cashier_shifts,
                    [id |-> ToString(Len(cashier_shifts) + 1),
                     cashier_id |-> Cashier,
                     opening_balance |-> amount,
                     shift_date |-> today,
                     status |-> "open"])
             /\ currentShiftId' = [currentShiftId EXCEPT
                                     ![s] = ToString(Len(cashier_shifts) + 1)]
             \* onClose() runs with the shift id of the render before the update
             /\ showShiftModal' = ShiftModalAfterClose(s, currentShiftId[s])
             /\ last' = Other("openShift")
    /\ UNCHANGED <<view, appVars, calculator, storeVars, pageVars, dbVars, today, currentShift, run>>

\* the close_cashier_shift remote procedure: marks the shift closed
close_cashier_shift(shiftId) ==
    [i \in 1..Len(cashier_shifts) |->
        IF cashier_shifts[i].id = shiftId
        THEN [cashier_shifts[i] EXCEPT !.status = "closed"]
        ELSE cashier_shifts[i]]

\* ShiftModal.closeShift: the close form is rendered when the query holds a row
closeShift(s, amount) ==
    /\ showShiftModal[s]
    /\ currentShift[s] \notin {NULL, LOADING}
    /\ \E error \in BOOLEAN :
        IF amount < 0 \/ error
        THEN /\ last' = Other("closeShift")
             /\ UNCHANGED <<cashier_shifts, showShiftModal>>
        ELSE /\ cashier_shifts' = close_cashier_shift(currentShift[s])
             /\ showShiftModal' = ShiftModalAfterClose(s, currentShiftId[s])
             /\ last' = Other("closeShift")
    /\ UNCHANGED <<view, appVars, calculator, storeVars, pageVars, dbVars, today, currentShiftId,
                   currentShift, run>>

\* midnight passes: new Date().toISOString().split('T')[0] changes
NextDay ==
    /\ today < MaxDay
    /\ today' = today + 1
    /\ last' = Other("nextDay")
    /\ UNCHANGED <<view, appVars, calculator, storeVars, pageVars, dbVars, cashier_shifts,
                   currentShiftId, currentShift, showShiftModal, run>>

----------------------------------------------------------------------------
(* SplitPaymentModal *)

\* const [taxRate] = useState(0) of the POS page and of the CheckoutPanel
taxRate == 0

\* payments.reduce((sum, p) => sum + p.amount, 0)
RECURSIVE SumAmounts(_, _)
SumAmounts(ps, sum) ==
    IF ps = <<>> THEN sum ELSE SumAmounts(Tail(ps), sum + Head(ps).amount)

\* payments.filter(p => p.type === t).reduce((sum, p) => sum + p.amount, 0)
RECURSIVE SumOfType(_, _, _)
SumOfType(ps, t, sum) ==
    IF ps = <<>> THEN sum
    ELSE SumOfType(Tail(ps), t,
                   IF Head(ps).type = t THEN sum + Head(ps).amount ELSE sum)

\* total of the POS page: subtotal + tax - discount, with the page's discount
POSTotal == getSubtotal(cart) + (getSubtotal(cart) * taxRate) \div 100 - posDiscount

totalPaid == SumAmounts(payments, 0)
remaining == POSTotal - totalPaid
change == IF totalPaid > POSTotal THEN totalPaid - POSTotal ELSE 0
hasCustomer == selectedCustomer # NULL

ModalOpen == view = "POSPage" /\ showSplitPayment

modalFrame == <<view, appVars, calculator, storeVars, posDiscount, showSplitPayment, showReceipt,
                receiptData, dbVars, shiftVars, run>>

\* the Multiple Pay button, disabled while the cart is empty
MultiplePay ==
    /\ OnPOS
    /\ cart # <<>>
    /\ IF currentShiftId["a"] = NULL
       THEN /\ showShiftModal' = [showShiftModal EXCEPT !["a"] = TRUE]
            /\ UNCHANGED showSplitPayment
            /\ last' = Other("multiplePay")
       ELSE /\ showSplitPayment' = TRUE
            /\ UNCHANGED showShiftModal
            /\ last' = Other("multiplePay")
    /\ UNCHANGED <<view, appVars, calculator, storeVars, posDiscount, showReceipt, receiptData,
                   payments, dbVars, cashier_shifts, today, currentShiftId,
                   currentShift, run>>

addPaymentMethod ==
    /\ ModalOpen
    /\ Len(payments) < MaxPayments
    /\ payments' = Append(payments, [type |-> "cash", amount |-> 0])
    /\ last' = Other("addPaymentMethod")
    /\ UNCHANGED modalFrame

\* the trash button is rendered when there is more than one entry
removePaymentMethod(index) ==
    /\ ModalOpen
    /\ index \in 1..Len(payments)
    /\ Len(payments) > 1
    /\ payments' = [i \in 1..(Len(payments) - 1) |->
                        IF i < index THEN payments[i] ELSE payments[i + 1]]
    /\ last' = Other("removePaymentMethod")
    /\ UNCHANGED modalFrame

\* the type select: choosing credit without a customer is ignored
updatePaymentType(index, t) ==
    /\ ModalOpen
    /\ index \in 1..Len(payments)
    /\ IF t = "credit" /\ ~hasCustomer
       THEN /\ UNCHANGED payments
            /\ last' = Other("updatePaymentType")
       ELSE /\ payments' = [payments EXCEPT ![index].type = t]
            /\ last' = Other("updatePaymentType")
    /\ UNCHANGED modalFrame

\* the amount input: parseFloat(value) || 0
updatePaymentAmount(index, a) ==
    /\ ModalOpen
    /\ index \in 1..Len(payments)
    /\ payments' = [payments EXCEPT ![index].amount = a]
    /\ last' = Other("updatePaymentAmount")
    /\ UNCHANGED modalFrame

\* the Full Amount button of a single entry
FullAmount ==
    /\ ModalOpen
    /\ Len(payments) = 1
    /\ POSTotal \in AmountRange
    /\ payments' = [payments EXCEPT ![1].amount = POSTotal]
    /\ last' = Other("fullAmount")
    /\ UNCHANGED modalFrame

\* the Remaining button of every entry after the first
Remaining(index) ==
    /\ ModalOpen
    /\ index \in 2..Len(payments)
    /\ remaining \in AmountRange
    /\ payments' = [payments EXCEPT ![index].amount = remaining]
    /\ last' = Other("remaining")
    /\ UNCHANGED modalFrame

\* Cancel and X of the dialog
SplitPaymentClose ==
    /\ ModalOpen
    /\ showSplitPayment' = FALSE
    /\ last' = Other("splitPaymentClose")
    /\ UNCHANGED <<view, appVars, calculator, storeVars, posDiscount, showReceipt, receiptData,
                   payments, dbVars, shiftVars, run>>

----------------------------------------------------------------------------
(* Completing a sale *)

\* SplitPaymentModal.handleConfirm, first check (also the disabled state of the
\* Complete Payment button)
ModalUnderpaid(paid, total) == paid < total

\* SplitPaymentModal.handleConfirm, second check
CreditBlocked(ps, withCustomer) ==
    /\ \E i \in 1..Len(ps) : ps[i].type = "credit" /\ ps[i].amount > 0
    /\ ~withCustomer

\* POSPage.completeSale: 'Verify payment covers total'
POSUnderpaid(paid, total) == paid < total

\* CheckoutPanel.completeSale: 'Validation'
PanelInsufficient(method, paid, total) == method = "cash" /\ Less(paid, total)

\* the decrement_stock remote procedure
decrement_stock(st, p, q) == [st EXCEPT ![p] = st[p] - q]

\* a fallback write that adds the quantity sold
SaleFallbackValue_Adds(read, q) == read + q

\* the fallback write of completeSale: (product?.stock_quantity || 0) - quantity
SaleFallbackValue(read, q) == read - q

\* the stock loop of completeSale over the cart lines
RECURSIVE DeductStock(_, _, _)
DeductStock(st, c, stockError) ==
    IF c = <<>> THEN st
    ELSE DeductStock(
            IF stockError
            THEN [st EXCEPT ![Head(c).product_id] =
                      SaleFallbackValue(st[Head(c).product_id], Head(c).quantity)]
            ELSE decrement_stock(st, Head(c).product_id, Head(c).quantity),
            Tail(c), stockError)

\* the increase_customer_balance remote procedure
increase_customer_balance(bal, c, amount) == [bal EXCEPT ![c] = bal[c] + amount]

\* the row POSPage.completeSale inserts into sales
POSSaleRow(ps, cashierId) ==
    LET cashAmount == SumOfType(ps, "cash", 0)
        cardAmount == SumOfType(ps, "card", 0)
        creditAmount == SumOfType(ps, "credit", 0)
        subtotal == getSubtotal(cart)
        tax == (subtotal * taxRate) \div 100
        total == subtotal + tax - posDiscount
        paid == cashAmount + cardAmount + creditAmount
    IN [sale_number |-> ToString(sales + 1),
        cashier_id |-> cashierId,
        customer_id |-> selectedCustomer,
        shift_id |-> currentShiftId["a"],
        subtotal |-> subtotal,
        tax_amount |-> tax,
        discount_amount |-> posDiscount,
        total |-> total,
        cash_amount |-> cashAmount,
        card_amount |-> cardAmount,
        credit_amount |-> creditAmount,
        payment_method |-> IF Len(ps) = 1 THEN ps[1].type ELSE "multiple",
        amount_paid |-> paid,
        change_amount |-> IF cashAmount > 0 THEN paid - total ELSE 0]

\* the row CheckoutPanel.completeSale inserts into sales
PanelSaleRow ==
    [sale_number |-> ToString(sales + 1),
     cashier_id |-> Cashier,
     customer_id |-> selectedCustomer,
     subtotal |-> getSubtotal(cart),
     tax_amount |-> getTaxAmount(cart, taxRate),
     discount_amount |-> discount,
     total |-> getTotal(cart, discount, taxRate),
     payment_method |-> paymentMethod,
     amount_paid |-> IF paymentMethod = "cash" THEN amountPaid
                     ELSE getTotal(cart, discount, taxRate),
     change_amount |-> IF paymentMethod = "cash"
                       THEN getChange(cart, discount, amountPaid, taxRate)
                       ELSE 0]

\* what a completeSale attempt did: whether the mutation succeeded, whether a
\* sales row was inserted and which, what was tendered against which total,
\* the change the dialog displayed, and which backend call failed, if any
Outcome(ok, inserted, row, paid, total, shown, failed) ==
    [op |-> "completeSale", arg |-> view, ok |-> ok,
     settled |-> IF ok THEN TRUE ELSE last.settled,
     inserted |-> inserted, row |-> row, paid |-> paid, total |-> total,
     shown |-> shown, failed |-> failed]

\* a completeSale that also throws when decrement_stock fails
Throws_OnStockError(itemsError, stockError, balanceError) ==
    itemsError \/ stockError

\* which failure after the sales insert rejects POSPage.completeSale: only
\* 'if (itemsError) throw itemsError'; stockError leads to the fallback and
\* the result of increase_customer_balance is not looked at
Throws(itemsError, stockError, balanceError) == itemsError

\* the first backend call of completeSale that failed
Failed(saleError, itemsError, stockError, balanceError) ==
    IF saleError THEN "sales"
    ELSE IF itemsError THEN "sale_items"
    ELSE IF stockError THEN "decrement_stock"
    ELSE IF balanceError THEN "increase_customer_balance"
    ELSE "none"

\* a completeSale that takes the cashier for signed in
CashierId_Assumed(sessionUser, user) == Cashier

\* session?.user?.id ?? user?.id
CashierId(sessionUser, user) == IF sessionUser # NULL THEN sessionUser ELSE user

\* Complete Payment of the dialog: handleConfirm, then completeSale.mutate(payments)
\* with its mutationFn, onSuccess and onError
handleConfirm ==
    /\ ModalOpen
    /\ sales < MaxSales
    /\ LET cashierId == CashierId(session, auth.user)
           row == POSSaleRow(payments, cashierId)
           Rejected == Outcome(FALSE, FALSE, NULL, totalPaid, POSTotal, change,
                               "none")
       IN
       IF \/ ModalUnderpaid(totalPaid, POSTotal)
          \/ CreditBlocked(payments, hasCustomer)
          \/ cart = <<>>
          \/ currentShiftId["a"] = NULL
          \/ cashierId = NULL
          \/ POSUnderpaid(row.amount_paid, row.total)
       THEN /\ last' = Rejected
            /\ UNCHANGED <<storeVars, pageVars, dbVars>>
       ELSE \E saleError, itemsError, stockError, balanceError \in BOOLEAN :
            LET failed == Failed(saleError, itemsError, stockError, balanceError)
                usesCredit == row.credit_amount > 0 /\ selectedCustomer # NULL
            IN
            IF saleError
            THEN /\ last' = Outcome(FALSE, FALSE, NULL, totalPaid, POSTotal,
                                    change, failed)
                 /\ UNCHANGED <<storeVars, pageVars, dbVars>>
            ELSE IF Throws(itemsError, stockError, balanceError)
            THEN /\ sales' = sales + 1
                 /\ sale_items' = IF itemsError THEN sale_items
                                  ELSE sale_items + 1
                 /\ last' = Outcome(FALSE, TRUE, row, totalPaid, POSTotal,
                                    change, failed)
                 /\ UNCHANGED <<storeVars, pageVars, stock,
                                outstanding_balance, suspended_orders>>
            ELSE /\ balanceError => usesCredit
                 /\ sales' = sales + 1
                 /\ sale_items' = sale_items + 1
                 /\ stock' = DeductStock(stock, cart, stockError)
                 /\ outstanding_balance' =
                        IF usesCredit /\ ~balanceError
                        THEN increase_customer_balance(outstanding_balance,
                                 selectedCustomer, row.credit_amount)
                        ELSE outstanding_balance
                 /\ receiptData' = row.sale_number
                 /\ showReceipt' = TRUE
                 /\ showSplitPayment' = FALSE
                 /\ last' = Outcome(TRUE, TRUE, row, totalPaid, POSTotal,
                                    change, failed)
                 /\ UNCHANGED <<storeVars, posDiscount, payments,
                                suspended_orders>>
    /\ UNCHANGED <<view, appVars, calculator, shiftVars, run>>

\* ReceiptModal Close and X: onClose
ReceiptClose ==
    /\ view = "POSPage"
    /\ showReceipt /\ receiptData # NULL
    /\ showReceipt' = FALSE
    /\ last' = Other("receiptClose")
    /\ UNCHANGED <<view, appVars, calculator, storeVars, posDiscount, showSplitPayment, receiptData,
                   payments, dbVars, shiftVars, run>>

\* ReceiptModal New Sale: onNewSale, then onClose
ReceiptNewSale ==
    /\ view = "POSPage"
    /\ showReceipt /\ receiptData # NULL
    /\ clearCart
    /\ posDiscount' = 0
    /\ receiptData' = NULL
    /\ showReceipt' = FALSE
    /\ last' = Last("newSale", NULL, TRUE)
    /\ UNCHANGED <<view, appVars, calculator, showSplitPayment, payments, dbVars, shiftVars, run>>

\* the Complete Sale button of the CheckoutPanel, disabled while the cart is
\* empty: completeSale.mutate() with its mutationFn, onSuccess and onError
PanelCompleteSale ==
    /\ OnPanel
    /\ cart # <<>>
    /\ sales < MaxSales
    /\ LET row == PanelSaleRow
           total == getTotal(cart, discount, taxRate)
           paid == IF paymentMethod = "cash" THEN amountPaid ELSE total
           Rejected == Outcome(FALSE, FALSE, NULL, paid, total, 0, "none")
       IN
       IF cart = <<>> \/ PanelInsufficient(paymentMethod, amountPaid, total)
       THEN /\ last' = Rejected
            /\ UNCHANGED <<storeVars, dbVars>>
       ELSE \E saleError, itemsError \in BOOLEAN :
            IF saleError
            THEN /\ last' = Outcome(FALSE, FALSE, NULL, paid, total, 0, "sales")
                 /\ UNCHANGED <<storeVars, dbVars>>
            ELSE IF itemsError
            THEN /\ sales' = sales + 1
                 /\ last' = Outcome(FALSE, TRUE, row, paid, total, 0,
                                    "sale_items")
                 /\ UNCHANGED <<storeVars, stock, sale_items,
                                outstanding_balance, suspended_orders>>
            ELSE /\ sales' = sales + 1
                 /\ sale_items' = sale_items + 1
                 /\ clearCart
                 /\ last' = Outcome(TRUE, TRUE, row, paid, total, 0, "none")
                 /\ UNCHANGED <<stock, outstanding_balance, suspended_orders>>
    /\ UNCHANGED <<view, appVars, calculator, pageVars, shiftVars, run>>

----------------------------------------------------------------------------
(* One browser session checking out, on the POS page or on the CheckoutPanel *)

QtyInputs == 0..MaxQty
OpeningInputs == {-100, 100}
CalculatorKeys == {"C", "=", "-", "100"}

\* a shift the cashier opened earlier today
OpenedShift == [id |-> "1", cashier_id |-> Cashier, opening_balance |-> 100,
                shift_date |-> 1, status |-> "open"]

Init == InitWith(InitStock, <<OpenedShift>>)

\* the shift handlers of the session that checks out
POSCheckShift == view = "POSPage" /\ checkShift("a")
POSShiftModalClose == view = "POSPage" /\ ShiftModalClose("a")

Next ==
    \/ \E p \in Products : POSAddToCart(p)
    \/ \E p \in Products, q \in QtyInputs : POSUpdateQuantity(p, q)
    \/ \E p \in Products : POSRemoveFromCart(p)
    \/ POSCancel
    \/ \E d \in DiscountInputs : POSSetDiscount(d)
    \/ \E c \in Customers \cup {NULL} : SelectCustomer(c)
    \/ \E p \in Products : handleAddToCart(p)
    \/ \E p \in Products : CartMinus(p)
    \/ \E p \in Products, q \in QtyInputs : CartSetQuantity(p, q)
    \/ \E p \in Products : CartRemove(p)
    \/ \E m \in PaymentMethods : SetPaymentMethod(m)
    \/ \E a \in AmountInputs : SetAmountPaid(a)
    \/ \E d \in DiscountInputs : SetDiscount(d)
    \/ \E value \in CalculatorKeys : handleCalculatorClick(value)
    \/ CalculatorReset
    \/ \E p \in Products, price \in PriceInputs : CartSetPrice(p, price)
    \/ POSCheckShift
    \/ POSShiftModalClose
    \/ MultiplePay
    \/ addPaymentMethod
    \/ \E i \in 1..MaxPayments : removePaymentMethod(i)
    \/ \E i \in 1..MaxPayments, t \in PaymentTypes : updatePaymentType(i, t)
    \/ \E i \in 1..MaxPayments, a \in AmountInputs : updatePaymentAmount(i, a)
    \/ FullAmount
    \/ \E i \in 1..MaxPayments : Remaining(i)
    \/ SplitPaymentClose
    \/ handleConfirm
    \/ ReceiptClose
    \/ ReceiptNewSale
    \/ PanelCompleteSale

Spec == Init /\ [][Next]_vars

----------------------------------------------------------------------------
(* Properties of the sales rows written by the checkout paths *)

\* the last handler was a completeSale attempt that inserted a sales row
RowWritten == last.op = "completeSale" /\ last.inserted

\* C1: every sales row written by a checkout path that has credit_amount > 0
\* or payment_method 'credit' names a customer.
C1_CreditRequiresCustomer ==
    RowWritten =>
        LET r == last.row IN
        (\/ ("credit_amount" \in DOMAIN r /\ r.credit_amount > 0)
         \/ r.payment_method = "credit")
        => r.customer_id # NULL

\* C2: every sales row written by a checkout path has amount_paid >= total,
\* and an attempt whose payments sum to less than the total inserts no row.
C2_PaymentCoversTotal ==
    last.op = "completeSale" =>
        /\ last.inserted => /\ last.row.amount_paid # NaN
                            /\ last.row.amount_paid >= last.row.total
        /\ Less(last.paid, last.total) => ~last.inserted

\* C4: every product's stock_quantity is >= 0.
C4_StockNonNegative == \A p \in Products : stock[p] >= 0

\* C5: the change the split-payment dialog shows is paid - total when
\* overpaid and 0 otherwise, and the sale records that same change_amount.
C5_ChangeRecordedAsShown ==
    (RowWritten /\ last.arg = "POSPage") =>
        /\ last.shown = (IF last.paid > last.total
                         THEN last.paid - last.total ELSE 0)
        /\ last.row.change_amount = last.shown

\* C9: from a successful completeSale (or suspendOrder) until the next
\* product added or order resumed, the cart is empty.
C9_CartEmptyAfterSale == last.settled => cart = <<>>

\* the stock after every line of cart c has been deducted once
StockLess(st, c) ==
    [p \in Products |->
        IF \E i \in 1..Len(c) : c[i].product_id = p THEN st[p] - QtyOf(c, p)
        ELSE st[p]]

----------------------------------------------------------------------------
(* The cart store driven from the cart components of both views *)

FullStock == [p \in Products |-> MaxQty]

InitCart == InitWith(FullStock, <<>>)

NextCart ==
    \/ \E p \in Products : POSAddToCart(p)
    \/ \E p \in Products, q \in QtyInputs : POSUpdateQuantity(p, q)
    \/ \E p \in Products, price \in PriceInputs : POSUpdatePrice(p, price)
    \/ \E p \in Products : POSRemoveFromCart(p)
    \/ POSCancel
    \/ \E p \in Products : handleAddToCart(p)
    \/ \E p \in Products : CartMinus(p)
    \/ \E p \in Products : CartPlus(p)
    \/ \E p \in Products, q \in QtyInputs : CartSetQuantity(p, q)
    \/ \E p \in Products, price \in PriceInputs : CartSetPrice(p, price)
    \/ \E p \in Products : CartRemove(p)
    \/ \E a \in AmountInputs : SetAmountPaid(a)
    \/ \E d \in DiscountInputs : SetDiscount(d)

SpecCart == InitCart /\ [][NextCart]_vars

\* the lines of c other than those of product p, in order
OtherLines(c, p) == SelectSeq(c, LAMBDA line : line.product_id # p)

\* C6: addToCart of a product already in the cart adds one to that line's
\* quantity and leaves the number of lines and every other line unchanged;
\* of a product not in the cart, it appends exactly one line of quantity 1.
C6_AddToCartIncrements ==
    [][(last'.op = "addToCart" /\ last'.ok) =>
        LET p == last'.arg IN
        IF \E i \in 1..Len(cart) : cart[i].product_id = p
        THEN /\ Len(cart') = Len(cart)
             /\ \A i \in 1..Len(cart) :
                    IF cart[i].product_id = p
                    THEN /\ cart'[i].quantity = cart[i].quantity + 1
                         /\ cart'[i].product_id = p
                         /\ cart'[i].price = cart[i].price
                    ELSE cart'[i] = cart[i]
        ELSE /\ Len(cart') = Len(cart) + 1
             /\ SubSeq(cart', 1, Len(cart)) = cart
             /\ cart'[Len(cart')].product_id = p
             /\ cart'[Len(cart')].quantity = 1
      ]_vars

\* a product already in a two-line cart was added again
C6_Witness ==
    /\ last.op = "addToCart" /\ last.ok
    /\ Len(cart) = 2
    /\ \E i \in 1..Len(cart) :
          cart[i].product_id = last.arg /\ cart[i].quantity = 2

\* C7: after removeFromCart(p), or updateQuantity(p, q) with q <= 0, the cart
\* has no line for p and every other line is unchanged, in the same order.
C7_RemoveDropsLine ==
    [][(\/ last'.op = "removeFromCart"
        \/ (last'.op = "updateQuantity" /\ last'.arg[2] <= 0)) =>
        LET p == IF last'.op = "removeFromCart" THEN last'.arg ELSE last'.arg[1] IN
        /\ \A i \in 1..Len(cart') : cart'[i].product_id # p
        /\ cart' = OtherLines(cart, p)
      ]_vars

\* a quantity of zero was entered for one of two lines, and the other remains
C7_Witness ==
    /\ last.op = "updateQuantity"
    /\ last.arg[2] <= 0
    /\ Len(cart) = 1
    /\ cart[1].product_id # last.arg[1]

\* the sum of the lines' subtotals, taken from the last line backwards
RECURSIVE SumSubtotals(_, _)
SumSubtotals(c, n) == IF n = 0 THEN 0 ELSE c[n].subtotal + SumSubtotals(c, n - 1)

\* C8: getSubtotal() is the sum of the lines' subtotals, getTaxAmount(r) is
\* subtotal * r / 100, getTotal(r) is subtotal + tax - discount and
\* getChange(r) is amountPaid - getTotal(r).
C8_DerivedTotals ==
    \A r \in TaxRates :
        LET sum == SumSubtotals(cart, Len(cart)) IN
        /\ getSubtotal(cart) = sum
        /\ 100 * getTaxAmount(cart, r) = sum * r
        /\ 100 * getTotal(cart, discount, r) = 100 * sum + sum * r - 100 * discount
        /\ 100 * getChange(cart, discount, amountPaid, r)
              = 100 * amountPaid - (100 * sum + sum * r - 100 * discount)

\* two lines, a discount and an amount tendered
C8_Witness ==
    /\ Len(cart) = 2
    /\ discount > 0
    /\ amountPaid > 0
    /\ SumSubtotals(cart, Len(cart)) > 0

----------------------------------------------------------------------------
(* Two browser sessions of one cashier opening and closing shifts *)

InitShift == InitWith(InitStock, <<>>) /\ view = "POSPage"

NextShift ==
    \/ \E s \in Sessions : checkShift(s)
    \/ \E s \in Sessions : fetchCurrentShift(s)
    \/ \E s \in Sessions : ManageShift(s)
    \/ \E s \in Sessions : ShiftModalClose(s)
    \/ \E s \in Sessions, amount \in OpeningInputs : openShift(s, amount)
    \/ \E s \in Sessions, amount \in OpeningInputs : closeShift(s, amount)
    \/ NextDay

SpecShift == InitShift /\ [][NextShift]_vars

\* C3: the backend never holds two cashier_shifts rows with status 'open' for
\* the same cashier_id and shift_date.
C3_OneOpenShiftPerDay ==
    \A i, j \in 1..Len(cashier_shifts) :
        (/\ cashier_shifts[i].status = "open"
         /\ cashier_shifts[j].status = "open"
         /\ cashier_shifts[i].cashier_id = cashier_shifts[j].cashier_id
         /\ cashier_shifts[i].shift_date = cashier_shifts[j].shift_date)
        => i = j

----------------------------------------------------------------------------
(* The stock loops of completeSale and receivePO, one await at a time, in two
   sessions.  A run starts where the handler enters its loop over the lines. *)

\* the increment_stock remote procedure
increment_stock(st, p, q) == [st EXCEPT ![p] = st[p] + q]

\* the fallback write of receivePO: product.stock_quantity + item.quantity
ReceiveFallbackValue(read, q) == read + q

\* the lines of a cart or of a purchase order: distinct products, 1..MaxQty each
LineInputs ==
    {<<[product_id |-> p, quantity |-> q]>> : p \in Products, q \in 1..MaxQty}
    \cup {<<[product_id |-> "p1", quantity |-> q1],
            [product_id |-> "p2", quantity |-> q2]>> : q1 \in 1..MaxQty, q2 \in 1..MaxQty}

\* the handler of session s moves on to its next line, if any
NextLine(s) ==
    [run[s] EXCEPT !.i = run[s].i + 1,
                   !.pc = IF run[s].i < Len(run[s].items) THEN "rpc" ELSE "done"]

\* completeSale reaches 'Auto-deduct stock' with the cart lines
SaleStockLoop(s, items) ==
    /\ run[s].pc = "idle"
    /\ run' = [run EXCEPT ![s] = [Idle EXCEPT !.pc = "rpc", !.kind = "sale",
                                               !.items = items, !.i = 1]]
    /\ last' = Other("completeSale")
    /\ UNCHANGED <<view, appVars, calculator, storeVars, pageVars, dbVars, shiftVars>>

\* receivePO reaches 'Update stock for each product' with the order's items
ReceiveStockLoop(s, items) ==
    /\ run[s].pc = "idle"
    /\ run' = [run EXCEPT ![s] = [Idle EXCEPT !.pc = "rpc", !.kind = "receive",
                                               !.items = items, !.i = 1]]
    /\ last' = Other("receivePO")
    /\ UNCHANGED <<view, appVars, calculator, storeVars, pageVars, dbVars, shiftVars>>

\* await supabase.rpc('decrement_stock' | 'increment_stock'): it either
\* adjusts the stock in one step or returns an error
StockRpc(s) ==
    /\ run[s].pc = "rpc"
    /\ LET item == run[s].items[run[s].i] IN
       \E error \in BOOLEAN :
          IF error
          THEN /\ run' = [run EXCEPT ![s].pc = "read"]
               /\ UNCHANGED stock
          ELSE /\ stock' = IF run[s].kind = "sale"
                           THEN decrement_stock(stock, item.product_id, item.quantity)
                           ELSE increment_stock(stock, item.product_id, item.quantity)
               /\ run' = [run EXCEPT ![s] = NextLine(s)]
    /\ last' = Other("rpc")
    /\ UNCHANGED <<view, appVars, calculator, storeVars, pageVars, sales, sale_items,
                   outstanding_balance, suspended_orders, shiftVars>>

\* the fallback's select of products.stock_quantity
StockFallbackRead(s) ==
    /\ run[s].pc = "read"
    /\ LET p == run[s].items[run[s].i].product_id IN
       run' = [run EXCEPT ![s].pc = "write",
                          ![s].read = stock[p],
                          ![s].fell = @ \cup {p},
                          ![s].reads[p] = stock[p]]
    /\ last' = Other("select")
    /\ UNCHANGED <<view, appVars, calculator, storeVars, pageVars, dbVars, shiftVars>>

\* the fallback's update of products.stock_quantity from the value read
StockFallbackWrite(s) ==
    /\ run[s].pc = "write"
    /\ LET item == run[s].items[run[s].i] IN
       stock' = [stock EXCEPT ![item.product_id] =
                    IF run[s].kind = "sale"
                    THEN SaleFallbackValue(run[s].read, item.quantity)
                    ELSE ReceiveFallbackValue(run[s].read, item.quantity)]
    /\ run' = [run EXCEPT ![s] = NextLine(s)]
    /\ last' = Other("update")
    /\ UNCHANGED <<view, appVars, calculator, storeVars, pageVars, sales, sale_items,
                   outstanding_balance, suspended_orders, shiftVars>>

InitRace == InitWith(FullStock, <<>>) /\ view = "POSPage"

NextRace ==
    \/ \E s \in Sessions, items \in LineInputs : SaleStockLoop(s, items)
    \/ \E s \in Sessions, items \in LineInputs : ReceiveStockLoop(s, items)
    \/ \E s \in Sessions : StockRpc(s)
    \/ \E s \in Sessions : StockFallbackRead(s)
    \/ \E s \in Sessions : StockFallbackWrite(s)

SpecRace == InitRace /\ [][NextRace]_vars

\* the adjustment the run of session s makes to the stock of product p
Adjustment(s, p) ==
    LET i == CHOOSE k \in 1..Len(run[s].items) : run[s].items[k].product_id = p IN
    IF run[s].kind = "sale" THEN 0 - run[s].items[i].quantity
    ELSE run[s].items[i].quantity

\* both runs are over, and both took the fallback for p from the same value
BothFellBackFrom(p) ==
    /\ \A s \in Sessions : run[s].pc = "done" /\ p \in run[s].fell
    /\ run["a"].reads[p] = run["b"].reads[p]

\* C10: when two completeSale or receivePO runs both take the fallback for a
\* product and both read the same stock value v, the final stock is v with the
\* adjustment of only one of the two runs, not of both.
C10_LastWriteWins ==
    \A p \in Products :
        BothFellBackFrom(p) =>
            LET v == run["a"].reads[p] IN
            /\ \E s \in Sessions : stock[p] = v + Adjustment(s, p)
            /\ stock[p] # v + Adjustment("a", p) + Adjustment("b", p)

\* two sales of p1 read the same stock, and one of the two deductions is lost
C10_Witness ==
    /\ BothFellBackFrom("p1")
    /\ \A s \in Sessions : run[s].kind = "sale"
    /\ stock["p1"] = run["a"].reads["p1"] + Adjustment("b", "p1")
    /\ stock["p1"] > FullStock["p1"] + Adjustment("a", "p1") + Adjustment("b", "p1")

----------------------------------------------------------------------------
(* Route gating: ProtectedRoute and the route table of App *)

\* a route element without the allowedRoles prop, and with it
AnyRole == [given |-> FALSE, roles |-> {}]
Roles(roles) == [given |-> TRUE, roles |-> roles]

\* ProtectedRoute that leaves out the is_active test
ProtectedRoute_NoActiveTest(a, allowedRoles) ==
    IF a.loading THEN "spinner"
    ELSE IF a.user = NULL THEN "/login"
    ELSE IF allowedRoles.given /\ a.profile.role \notin allowedRoles.roles
    THEN "Access Denied"
    ELSE "children"

\* ProtectedRoute: what it renders for AuthContext value a
ProtectedRoute(a, allowedRoles) ==
    IF a.loading THEN "spinner"
    ELSE IF a.user = NULL THEN "/login"
    ELSE IF ~(a.profile.exists /\ a.profile.is_active) THEN "Account Inactive"
    ELSE IF allowedRoles.given /\ a.profile.role \notin allowedRoles.roles
    THEN "Access Denied"
    ELSE "children"

Management == {"owner", "admin", "accountant"}

\* the child routes of "/": the page element, whether a ProtectedRoute wraps
\* it, and that ProtectedRoute's allowedRoles
ChildRoutes ==
    [dashboard |-> [page |-> "DashboardPage", wrapped |-> TRUE, allowedRoles |-> Roles(Management)],
     pos |-> [page |-> "POSPage", wrapped |-> FALSE, allowedRoles |-> AnyRole],
     mysales |-> [page |-> "MySalesPage", wrapped |-> TRUE, allowedRoles |-> Roles({"cashier"})],
     inventory |-> [page |-> "InventoryPage", wrapped |-> TRUE, allowedRoles |-> Roles(Management)],
     customers |-> [page |-> "CustomersPage", wrapped |-> FALSE, allowedRoles |-> AnyRole],
     suppliers |-> [page |-> "SuppliersPage", wrapped |-> TRUE, allowedRoles |-> Roles(Management)],
     purchaseorders |-> [page |-> "PurchaseOrdersPage", wrapped |-> TRUE, allowedRoles |-> Roles(Management)],
     reports |-> [page |-> "ReportsPage", wrapped |-> TRUE, allowedRoles |-> Roles(Management)],
     users |-> [page |-> "UsersPage", wrapped |-> TRUE, allowedRoles |-> Roles({"owner", "admin"})],
     settings |-> [page |-> "SettingsPage", wrapped |-> TRUE, allowedRoles |-> Roles({"owner", "admin"})]]

\* the path of each child route
RoutePath ==
    [dashboard |-> "/dashboard", pos |-> "/pos", mysales |-> "/my-sales",
     inventory |-> "/inventory", customers |-> "/customers",
     suppliers |-> "/suppliers", purchaseorders |-> "/purchase-orders",
     reports |-> "/reports", users |-> "/users", settings |-> "/settings"]

Paths == {"/login", "/"} \cup {RoutePath[r] : r \in DOMAIN RoutePath}

\* <Routes>: what the location pa shows for AuthContext value a.  "/login"
\* is outside the layout route; every other path is a child of "/", whose
\* element is <ProtectedRoute><MainLayout /></ProtectedRoute>
Rendered(pa, a) ==
    IF pa = "/login" THEN "LoginPage"
    ELSE LET outer == ProtectedRoute(a, AnyRole) IN
         IF outer # "children" THEN outer
         ELSE IF pa = "/" THEN "/dashboard"
         ELSE LET route == ChildRoutes[CHOOSE r \in DOMAIN RoutePath : RoutePath[r] = pa]
                  inner == IF route.wrapped
                           THEN ProtectedRoute(a, route.allowedRoles)
                           ELSE "children"
              IN IF inner = "children" THEN route.page ELSE inner

\* the values useAuth can hand to the context
AuthStates ==
    [loading : BOOLEAN, user : {NULL, "u1"},
     profile : {NoProfile} \cup {ProfileOf(r, act) : r \in UserRoles, act \in BOOLEAN}]

\* useAuth: the session or the profile changes
AuthStateChange(a) ==
    /\ a # auth
    /\ auth' = a
    /\ UNCHANGED <<exceptAuth, path>>

\* the user follows a link or enters a location
Navigate(pa) ==
    /\ pa # path
    /\ path' = pa
    /\ UNCHANGED <<exceptAuth, auth>>

\* <Navigate to=... replace />
Redirect ==
    /\ Rendered(path, auth) \in Paths
    /\ path' = Rendered(path, auth)
    /\ UNCHANGED <<exceptAuth, auth>>

InitAuth ==
    /\ InitWith(InitStock, <<>>)
    /\ view = "POSPage"

NextAuth ==
    \/ \E a \in AuthStates : AuthStateChange(a)
    \/ \E pa \in Paths : Navigate(pa)
    \/ Redirect

SpecAuth == InitAuth /\ [][NextAuth]_vars

\* the pages of the application behind the sign-in
Pages == {ChildRoutes[r].page : r \in DOMAIN ChildRoutes}

\* C12: a page is rendered only when auth loading has finished, a user is
\* signed in, the profile exists and is active and, when its route lists
\* allowedRoles, the profile's role is in that list; this holds for every
\* page, POSPage and CustomersPage included.
C12_RouteGatedByRole ==
    LET page == Rendered(path, auth) IN
    page \in Pages =>
        /\ ~auth.loading
        /\ auth.user # NULL
        /\ auth.profile.exists
        /\ auth.profile.is_active
        /\ \A r \in DOMAIN ChildRoutes :
              (ChildRoutes[r].page = page /\ ChildRoutes[r].allowedRoles.given)
              => auth.profile.role \in ChildRoutes[r].allowedRoles.roles
        /\ page \in {"UsersPage", "SettingsPage"} => auth.profile.role \in {"owner", "admin"}
        /\ page = "MySalesPage" => auth.profile.role = "cashier"

\* an accountant sees the POS page, and an owner the users page
C12_Witness ==
    \/ /\ Rendered(path, auth) = "POSPage"
       /\ auth.profile.role = "accountant"
       /\ path = "/pos"
    \/ /\ Rendered(path, auth) = "UsersPage"
       /\ auth.profile.role = "owner"

----------------------------------------------------------------------------
(* Text functions of JavaScript used by the CSV import and export *)

Whitespace == {" ", "\n", "\r", "\t"}
DigitChars == <<"0", "1", "2", "3", "4", "5", "6", "7", "8", "9">>
IsDigit(ch) == \E i \in 1..10 : DigitChars[i] = ch
DigitValue(ch) == (CHOOSE i \in 1..10 : DigitChars[i] = ch) - 1

\* String.prototype.split(sep) for a one-character separator
RECURSIVE SplitFrom(_, _, _, _)
SplitFrom(t, sep, i, piece) ==
    IF i > Len(t) THEN <<piece>>
    ELSE IF t[i] = sep THEN <<piece>> \o SplitFrom(t, sep, i + 1, <<>>)
    ELSE SplitFrom(t, sep, i + 1, Append(piece, t[i]))

Split(t, sep) == SplitFrom(t, sep, 1, <<>>)

\* String.prototype.trim
RECURSIVE TrimStart(_)
TrimStart(t) ==
    IF t # <<>> /\ Head(t) \in Whitespace THEN TrimStart(Tail(t)) ELSE t

RECURSIVE TrimEnd(_)
TrimEnd(t) ==
    IF t # <<>> /\ t[Len(t)] \in Whitespace
    THEN TrimEnd(SubSeq(t, 1, Len(t) - 1)) ELSE t

Trim(t) == TrimEnd(TrimStart(t))

\* replace(/"/g, '')
StripQuotes(t) == SelectSeq(t, LAMBDA ch : ch # "\"")

\* replace(/"/g, '""')
RECURSIVE DoubleQuotes(_)
DoubleQuotes(t) ==
    IF t = <<>> THEN <<>>
    ELSE (IF Head(t) = "\"" THEN <<"\"", "\"">> ELSE <<Head(t)>>)
         \o DoubleQuotes(Tail(t))

\* String.prototype.includes for one character
Includes(t, ch) == \E i \in 1..Len(t) : t[i] = ch

\* toLowerCase over the letters in use
ToLowerCase(t) == [i \in 1..Len(t) |-> IF t[i] = "F" THEN "f" ELSE t[i]]

\* Array.prototype.join(sep)
RECURSIVE Join(_, _)
Join(pieces, sep) ==
    IF pieces = <<>> THEN <<>>
    ELSE IF Len(pieces) = 1 THEN pieces[1]
    ELSE pieces[1] \o <<sep>> \o Join(Tail(pieces), sep)

\* the run of digits of t from position i: its value and the number of digits
RECURSIVE DigitRun(_, _, _, _)
DigitRun(t, i, value, n) ==
    IF i <= Len(t) /\ IsDigit(t[i])
    THEN DigitRun(t, i + 1, 10 * value + DigitValue(t[i]), n + 1)
    ELSE [value |-> value, n |-> n]

\* a number that is not one
NotANumber == [nan |-> TRUE, value |-> 0]

\* parseInt(t): optional sign and digits after leading white space
ParseInt(t) ==
    LET u == TrimStart(t)
        signed == u # <<>> /\ Head(u) \in {"-", "+"}
        found == DigitRun(u, IF signed THEN 2 ELSE 1, 0, 0)
    IN IF found.n = 0 THEN NotANumber
       ELSE [nan |-> FALSE,
             value |-> IF signed /\ Head(u) = "-" THEN 0 - found.value ELSE found.value]

\* parseFloat(t), in hundredths: sign, digits and up to two decimals
ParseFloat(t) ==
    LET u == TrimStart(t)
        signed == u # <<>> /\ Head(u) \in {"-", "+"}
        from == IF signed THEN 2 ELSE 1
        whole == DigitRun(u, from, 0, 0)
        dot == from + whole.n
        hasDot == dot <= Len(u) /\ u[dot] = "."
        first == IF hasDot /\ dot + 1 <= Len(u) /\ IsDigit(u[dot + 1])
                 THEN DigitValue(u[dot + 1]) ELSE 0
        second == IF hasDot /\ dot + 2 <= Len(u) /\ IsDigit(u[dot + 1])
                     /\ IsDigit(u[dot + 2])
                  THEN DigitValue(u[dot + 2]) ELSE 0
        digits == whole.n + (IF hasDot /\ dot + 1 <= Len(u) /\ IsDigit(u[dot + 1])
                             THEN 1 ELSE 0)
        magnitude == 100 * whole.value + 10 * first + second
    IN IF digits = 0 THEN NotANumber
       ELSE [nan |-> FALSE,
             value |-> IF signed /\ Head(u) = "-" THEN 0 - magnitude ELSE magnitude]

\* x || fallback for a number x
NumberOr(x, fallback) == IF x.nan \/ x.value = 0 THEN fallback ELSE x.value

\* the decimal digits of a natural number
RECURSIVE Digits(_)
Digits(n) ==
    IF n < 10 THEN <<DigitChars[n + 1]>>
    ELSE Digits(n \div 10) \o <<DigitChars[(n % 10) + 1]>>

\* String(n) for an integer
IntToString(n) == IF n < 0 THEN <<"-">> \o Digits(0 - n) ELSE Digits(n)

\* String(x) for a number x given in hundredths
NumberToString(h) ==
    LET m == IF h < 0 THEN 0 - h ELSE h
        frac == m % 100
    IN (IF h < 0 THEN <<"-">> ELSE <<>>)
       \o Digits(m \div 100)
       \o (IF frac = 0 THEN <<>>
           ELSE IF frac % 10 = 0 THEN <<".", DigitChars[(frac \div 10) + 1]>>
           ELSE <<".", DigitChars[(frac \div 10) + 1], DigitChars[(frac % 10) + 1]>>)

----------------------------------------------------------------------------
(* CSVImport: parseCSV and importMutation *)

\* a cell that is null
NullText == <<NULL>>

\* values[i] || fallback
ValueOr(values, i, fallback) ==
    IF i <= Len(values) /\ values[i] # <<>> THEN values[i] ELSE fallback

\* values[i], the empty text standing for undefined where a number is parsed
ValueAt(values, i) == IF i <= Len(values) THEN values[i] ELSE <<>>

\* the object parseCSV makes of one line
ParsedRow(line, rowNumber) ==
    LET cells == Split(line, ",")
        values == [i \in 1..Len(cells) |-> StripQuotes(Trim(cells[i]))]
    IN [rowNumber |-> rowNumber,
        name |-> ValueOr(values, 1, <<>>),
        sku |-> ValueOr(values, 2, <<>>),
        barcode |-> ValueOr(values, 3, NullText),
        category |-> ValueOr(values, 4, <<>>),
        cost |-> NumberOr(ParseFloat(ValueAt(values, 5)), 0),
        price |-> NumberOr(ParseFloat(ValueAt(values, 6)), 0),
        stock |-> NumberOr(ParseInt(ValueAt(values, 7)), 0),
        threshold |-> NumberOr(ParseInt(ValueAt(values, 8)), 10),
        description |-> ValueOr(values, 9, NullText)]

\* text.split('\n').filter(line => line.trim())
NonBlankLines(text) == SelectSeq(Split(text, "\n"), LAMBDA line : Trim(line) # <<>>)

\* parseCSV: it throws for fewer than two lines, else returns the rows
parseCSV(text) ==
    LET lines == NonBlankLines(text) IN
    IF Len(lines) < 2 THEN [ok |-> FALSE, rows |-> <<>>]
    ELSE [ok |-> TRUE,
          rows |-> [k \in 1..(Len(lines) - 1) |-> ParsedRow(lines[k + 1], k + 1)]]

\* categoryMap.get(name): the id of the last category of that lower-case name
CategoryId(cats, name) ==
    IF \E i \in 1..Len(cats) : ToLowerCase(cats[i].name) = name
    THEN LET last_i == CHOOSE i \in 1..Len(cats) :
                 /\ ToLowerCase(cats[i].name) = name
                 /\ \A j \in (i + 1)..Len(cats) : ToLowerCase(cats[j].name) # name
         IN cats[last_i].id
    ELSE NULL

\* validation that lets a price of zero through
ValidationError_AllowsZeroPrice(row, cats) ==
    IF row.name = <<>> THEN "Missing product name"
    ELSE IF row.sku = <<>> THEN "Missing SKU"
    ELSE IF row.category = <<>> THEN "Missing category"
    ELSE IF CategoryId(cats, ToLowerCase(row.category)) = NULL THEN "Category not found"
    ELSE IF row.price < 0 THEN "Invalid price"
    ELSE "none"

\* the validation of one row: the first check it fails
ValidationError(row, cats) ==
    IF row.name = <<>> THEN "Missing product name"
    ELSE IF row.sku = <<>> THEN "Missing SKU"
    ELSE IF row.category = <<>> THEN "Missing category"
    ELSE IF CategoryId(cats, ToLowerCase(row.category)) = NULL THEN "Category not found"
    ELSE IF row.price <= 0 THEN "Invalid price"
    ELSE "none"

\* the product prepared from a row that passed
ProductToInsert(row, cats) ==
    [name |-> row.name, sku |-> row.sku, barcode |-> row.barcode,
     category_id |-> CategoryId(cats, ToLowerCase(row.category)),
     cost |-> row.cost, price |-> row.price, stock_quantity |-> row.stock,
     low_stock_threshold |-> row.threshold, description |-> row.description]

\* the rows that passed, as products, in order
RECURSIVE ProductsToInsert(_, _)
ProductsToInsert(rows, cats) ==
    IF rows = <<>> THEN <<>>
    ELSE (IF ValidationError(Head(rows), cats) = "none"
          THEN <<ProductToInsert(Head(rows), cats)>> ELSE <<>>)
         \o ProductsToInsert(Tail(rows), cats)

\* validationErrors
ValidationErrors(rows, cats) ==
    {<<rows[k].rowNumber, ValidationError(rows[k], cats)>> :
        k \in {j \in 1..Len(rows) : ValidationError(rows[j], cats) # "none"}}

\* the file input: the file is kept when parseCSV accepts it, the errors on
\* display are cleared and no import of this file has run
handleFileChange(text) ==
    /\ file' = IF parseCSV(text).ok THEN FileOf(text) ELSE NoFile
    /\ imported' = NotRun
    /\ UNCHANGED <<exceptCsv, categories, catalogue, download>>

\* the ['categories'] query returns
CategoriesLoad ==
    /\ ~categories.loaded
    /\ categories' = [categories EXCEPT !.loaded = TRUE]
    /\ UNCHANGED <<exceptCsv, file, catalogue, imported, download>>

\* the Import button: importMutation with its onSuccess and onError
importMutation ==
    IF ~file.chosen \/ ~categories.loaded
    THEN /\ imported' = [NotRun EXCEPT !.ran = TRUE, !.errors = imported.errors]
         /\ UNCHANGED <<file, catalogue>>
         /\ UNCHANGED <<exceptCsv, categories, download>>
    ELSE LET result == parseCSV(file.text)
             errors == ValidationErrors(result.rows, categories.rows)
             productsToInsert == ProductsToInsert(result.rows, categories.rows)
         IN
         /\ Len(catalogue) + Len(productsToInsert) <= MaxCatalogue
         /\ IF ~result.ok
            THEN /\ imported' = [NotRun EXCEPT !.ran = TRUE, !.errors = imported.errors]
                 /\ UNCHANGED <<file, catalogue>>
            ELSE IF errors # {}
            THEN /\ imported' = [ran |-> TRUE, parsed |-> TRUE, issued |-> FALSE,
                                 ok |-> FALSE, rows |-> result.rows,
                                 errors |-> errors, count |-> 0]
                 /\ UNCHANGED <<file, catalogue>>
            ELSE \E error \in BOOLEAN :
                 IF error
                 THEN /\ imported' = [ran |-> TRUE, parsed |-> TRUE, issued |-> TRUE,
                                      ok |-> FALSE, rows |-> result.rows,
                                      errors |-> imported.errors, count |-> 0]
                      /\ UNCHANGED <<file, catalogue>>
                 ELSE /\ catalogue' = catalogue \o productsToInsert
                      /\ file' = NoFile
                      /\ imported' = [ran |-> TRUE, parsed |-> TRUE, issued |-> TRUE,
                                      ok |-> TRUE, rows |-> result.rows,
                                      errors |-> {}, count |-> Len(productsToInsert)]
         /\ UNCHANGED <<exceptCsv, categories, download>>

\* the header line of the import template
HeaderLine ==
    Join(<<<<"Name">>, <<"SKU">>, <<"Barcode">>, <<"Category">>, <<"Cost Price">>,
           <<"Selling Price">>, <<"Stock Quantity">>, <<"Low Stock Threshold">>,
           <<"Description">>>>, ",")

\* a data line of nine cells
DataLine(name, sku, category, price) ==
    Join(<<name, sku, <<"7">>, category, <<"2">>, price, <<"3">>, <<"4">>, <<"d">>>>,
         ",")

\* the data lines the files are made of
RowInputs ==
    { DataLine(<<"a">>, <<"s">>, <<"f", "d">>, <<"5">>),
      DataLine(<<"\"", "a", "\"">>, <<" ", "s">>, <<"F", "d">>, <<"5", ".", "5">>),
      DataLine(<<>>, <<"s">>, <<"f", "d">>, <<"5">>),
      DataLine(<<"\"", "\"">>, <<"s">>, <<"f", "d">>, <<"5">>),
      DataLine(<<"a">>, <<" ">>, <<"f", "d">>, <<"5">>),
      DataLine(<<"a">>, <<"s">>, <<>>, <<"5">>),
      DataLine(<<"a">>, <<"s">>, <<"x">>, <<"5">>),
      DataLine(<<"a">>, <<"s">>, <<"f", "d">>, <<"0">>),
      DataLine(<<"a">>, <<"s">>, <<"f", "d">>, <<"-", "5">>),
      DataLine(<<"a">>, <<"s">>, <<"f", "d">>, <<"x">>),
      <<"a">>,
      <<" ">> }

\* the files a user can choose: the header and up to MaxRows data lines, or nothing
FileInputs ==
    {<<>>} \cup
    UNION { { Join(<<HeaderLine>> \o lines, "\n") : lines \in [1..n -> RowInputs] } :
            n \in 0..MaxRows }

InitImport ==
    /\ InitWith(InitStock, <<>>)
    /\ view = "POSPage"

NextImport ==
    \/ \E text \in FileInputs : handleFileChange(text)
    \/ CategoriesLoad
    \/ importMutation

SpecImport == InitImport /\ [][NextImport]_vars

\* a parsed row has a name, a SKU, a category that exists and a price above zero
RowAccepted(row) ==
    /\ row.name # <<>>
    /\ row.sku # <<>>
    /\ \E i \in 1..Len(categories.rows) :
           ToLowerCase(categories.rows[i].name) = ToLowerCase(row.category)
    /\ row.price > 0

\* C13: an import issues the bulk insert exactly when every parsed row has a
\* name, a SKU, a category matching an existing one and a price above zero;
\* when one row fails, or nothing could be parsed, nothing is inserted, the
\* import fails and every failing row is reported; a successful insert adds
\* all the rows of the file
C13_ImportAllOrNothing ==
    [][(imported'.ran /\ (imported' # imported \/ catalogue' # catalogue)) =>
        /\ imported'.parsed =>
             (imported'.issued <=>
                 \A k \in 1..Len(imported'.rows) : RowAccepted(imported'.rows[k]))
        /\ ~imported'.parsed => ~imported'.issued
        /\ ~imported'.issued => /\ ~imported'.ok
                                /\ catalogue' = catalogue
        /\ (imported'.parsed /\ ~imported'.issued) =>
             {e[1] : e \in imported'.errors} =
                 {imported'.rows[k].rowNumber :
                     k \in {j \in 1..Len(imported'.rows) : ~RowAccepted(imported'.rows[j])}}
        /\ imported'.ok => /\ imported'.count = Len(imported'.rows)
                           /\ Len(catalogue') = Len(catalogue) + Len(imported'.rows)
        /\ (imported'.issued /\ ~imported'.ok) => catalogue' = catalogue]_vars

\* an import of two rows went in whole after an import with a failing row was refused
C13_Witness ==
    /\ imported.ok
    /\ imported.count = 2
    /\ Len(catalogue) = 2
    /\ catalogue[2].name = <<"a">>
    /\ catalogue[2].price = 550


----------------------------------------------------------------------------
(* csvUtils: exportProductsToCSV, and the Export button of the inventory page *)

\* categoryMap.get(id) || '' : the name of the last category of that id
CategoryName(cats, id) ==
    IF \E i \in 1..Len(cats) : cats[i].id = id
    THEN LET last_i == CHOOSE i \in 1..Len(cats) :
                 /\ cats[i].id = id
                 /\ \A j \in (i + 1)..Len(cats) : cats[j].id # id
         IN cats[last_i].name
    ELSE <<>>

\* text || ''
TextOr(text) == IF text = NullText THEN <<>> ELSE text

\* a cell as written: in quotes, its quotes doubled, when it holds a comma, a
\* quote or a line break
Cell(cellStr) ==
    IF Includes(cellStr, ",") \/ Includes(cellStr, "\"") \/ Includes(cellStr, "\n")
    THEN <<"\"">> \o DoubleQuotes(cellStr) \o <<"\"">>
    ELSE cellStr

\* the nine cells of one product
ExportRow(product, cats) ==
    <<product.name,
      product.sku,
      TextOr(product.barcode),
      CategoryName(cats, product.category_id),
      NumberToString(product.cost),
      NumberToString(product.price),
      IntToString(product.stock_quantity),
      IntToString(product.low_stock_threshold),
      TextOr(product.description)>>

\* csvContent
exportProductsToCSV(products, cats) ==
    Join(<<HeaderLine>> \o
         [k \in 1..Len(products) |->
             LET row == ExportRow(products[k], cats)
             IN Join([c \in 1..Len(row) |-> Cell(row[c])], ",")],
         "\n")

\* a product row of the table
Product(name, barcode, threshold, description) ==
    [name |-> name, sku |-> <<"s">>, barcode |-> barcode, category_id |-> "cat1",
     cost |-> 200, price |-> 550, stock_quantity |-> 3,
     low_stock_threshold |-> threshold, description |-> description]

\* the product rows the table is filled from
ProductInputs ==
    { Product(<<"a">>, <<"7">>, 4, <<"d">>),
      Product(<<"a", ",", "b">>, <<"7">>, 4, <<"d">>),
      Product(<<"a", "\"">>, <<"7">>, 4, <<"d">>),
      Product(<<"a", "\n", "b">>, <<"7">>, 4, <<"d">>),
      Product(<<"a">>, NullText, 0, NullText),
      Product(<<"a">>, <<"7">>, 10, <<"d", ",", "\"">>) }

\* the ['products'] query returns the rows of the table
ProductsQuery(rows) ==
    /\ catalogue' = rows
    /\ UNCHANGED <<exceptCsv, file, categories, imported, download>>

\* the Export button
handleExport ==
    /\ categories.loaded
    /\ download' = [chosen |-> TRUE,
                    text |-> exportProductsToCSV(catalogue, categories.rows),
                    products |-> catalogue]
    /\ UNCHANGED <<exceptCsv, file, categories, catalogue, imported>>

InitExport ==
    /\ InitWith(InitStock, <<>>)
    /\ view = "POSPage"

NextExport ==
    \/ \E n \in 0..MaxCatalogue : \E rows \in [1..n -> ProductInputs] : ProductsQuery(rows)
    \/ CategoriesLoad
    \/ handleExport

SpecExport == InitExport /\ [][NextExport]_vars

\* the row parseCSV returns has the fields of the product
SameProduct(row, product, cats) ==
    /\ row.name = product.name
    /\ row.sku = product.sku
    /\ row.barcode = product.barcode
    /\ row.category = CategoryName(cats, product.category_id)
    /\ row.cost = product.cost
    /\ row.price = product.price
    /\ row.stock = product.stock_quantity
    /\ row.threshold = product.low_stock_threshold
    /\ row.description = product.description

\* C14: parsing the text of an export with parseCSV yields one row per
\* exported product, with the product's name, SKU, barcode, category name,
\* cost, price, stock quantity, low-stock threshold and description
C14_ExportInverse ==
    download.chosen =>
        LET rows == parseCSV(download.text).rows IN
        /\ Len(rows) = Len(download.products)
        /\ \A k \in 1..Len(rows) :
               SameProduct(rows[k], download.products[k], categories.rows)

----------------------------------------------------------------------------
(* Hold and resume: suspendOrder and resumeOrder of the POS page and of the
   SuspendedOrders component *)

\* JSON.stringify of a number: NaN is written as null
JsonNumber(x) == IF x = NaN THEN JsonNull ELSE x

\* the cart as the jsonb column items holds it and hands it back
Json(items) ==
    [i \in 1..Len(items) |->
        [items[i] EXCEPT !.price = JsonNumber(items[i].price),
                         !.quantity = JsonNumber(items[i].quantity),
                         !.subtotal = JsonNumber(items[i].subtotal),
                         !.stock_available = JsonNumber(items[i].stock_available)]]

\* mutation by settled, its backend call failed or not, and raised a toast of
\* kind "success" or "error", or "none"
Toast(kind, by, failed) == [kind |-> kind, by |-> by, failed |-> failed]

\* the row suspendOrder inserts
SuspendedRow(id, customer_id) ==
    [id |-> id, cashier_id |-> auth.user, customer_id |-> customer_id,
     items |-> Json(cart), subtotal |-> Reduce(cart, 0)]

\* sequence t in reverse
Reverse(t) == [i \in 1..Len(t) |-> t[Len(t) + 1 - i]]

\* the ['suspended-orders', user.id] query over the rows given: the cashier's
\* rows, newest first
SuspendedOrdersOf(rows) ==
    [loaded |-> TRUE,
     rows |-> Reverse(SelectSeq(rows, LAMBDA o : o.cashier_id = auth.user))]

\* suspendedOrders?.find((o) => o.id === orderId) is defined
Found(orderId) ==
    \E i \in 1..Len(suspendedOrders.rows) : suspendedOrders.rows[i].id = orderId

\* suspendedOrders?.find((o) => o.id === orderId)
Find(orderId) ==
    suspendedOrders.rows[CHOOSE i \in 1..Len(suspendedOrders.rows) :
        /\ suspendedOrders.rows[i].id = orderId
        /\ \A j \in 1..(i - 1) : suspendedOrders.rows[j].id # orderId]

\* a delete that removes nothing
Delete_Nothing(rows, orderId) == rows

\* .delete().eq('id', orderId)
Delete(rows, orderId) == SelectSeq(rows, LAMBDA o : o.id # orderId)

\* what a hold or resume handler leaves alone
holdFrame == <<view, authVars, csvVars, pagesVars, calculator, pageVars, stock, sales,
               sale_items, outstanding_balance, shiftVars, run>>

\* the query returns
SuspendedOrdersQuery ==
    /\ ~suspendedOrders.loaded
    /\ suspendedOrders' = SuspendedOrdersOf(suspended_orders)
    /\ UNCHANGED <<holdFrame, storeVars, suspended_orders, order_seq,
                   showSuspendedOrders, toast, last>>

\* suspendOrder: the insert, then onSuccess, or onError if there is one
suspend(by, customer_id, hasOnError) ==
    /\ cart # <<>>
    /\ Len(suspended_orders) < MaxSuspended
    /\ order_seq < MaxOrders
    /\ \E error \in BOOLEAN :
        IF error
        THEN /\ toast' = Toast(IF hasOnError THEN "error" ELSE "none", by, TRUE)
             /\ last' = Last("suspendOrder", order_seq + 1, FALSE)
             /\ UNCHANGED <<storeVars, suspended_orders, order_seq, suspendedOrders>>
        ELSE /\ suspended_orders' =
                    Append(suspended_orders, SuspendedRow(order_seq + 1, customer_id))
             /\ order_seq' = order_seq + 1
             /\ clearCart
             /\ suspendedOrders' = SuspendedOrdersOf(suspended_orders')
             /\ toast' = Toast("success", by, FALSE)
             /\ last' = Last("suspendOrder", order_seq + 1, TRUE)
    /\ UNCHANGED <<holdFrame, showSuspendedOrders>>

\* the Suspend button of the POS page
POSSuspendOrder ==
    /\ OnPOS
    /\ ~showSuspendedOrders
    /\ suspend("POSPage.suspendOrder", selectedCustomer, FALSE)

\* the Hold Order button of SuspendedOrders
HoldOrder ==
    /\ OnPanel
    /\ suspend("SuspendedOrders.suspendOrder", NULL, TRUE)

\* the button that opens the list of suspended orders, and its X
SetShowSuspendedOrders(shown) ==
    /\ OnPOS
    /\ showSuspendedOrders = ~shown
    /\ showSuspendedOrders' = shown
    /\ last' = Other("setShowSuspendedOrders")
    /\ UNCHANGED <<holdFrame, storeVars, suspended_orders, order_seq,
                   suspendedOrders, toast>>

\* resumeOrder(orderId) of the POS page: the delete, then onSuccess
POSResumeOrder(orderId) ==
    /\ OnPOS
    /\ showSuspendedOrders
    /\ Found(orderId)
    /\ \E error \in BOOLEAN :
        IF error
        THEN /\ toast' = Toast("none", "POSPage.resumeOrder", TRUE)
             /\ last' = Last("resumeOrder", orderId, FALSE)
             /\ UNCHANGED <<storeVars, suspended_orders, suspendedOrders,
                            showSuspendedOrders>>
        ELSE /\ suspended_orders' = Delete(suspended_orders, orderId)
             /\ cart' = Find(orderId).items
             /\ selectedCustomer' = IF Find(orderId).customer_id # NULL
                                    THEN Find(orderId).customer_id
                                    ELSE selectedCustomer
             /\ suspendedOrders' = SuspendedOrdersOf(suspended_orders')
             /\ showSuspendedOrders' = FALSE
             /\ toast' = Toast("success", "POSPage.resumeOrder", FALSE)
             /\ last' = Last("resumeOrder", orderId, TRUE)
             /\ UNCHANGED <<paymentMethod, amountPaid, discount>>
    /\ UNCHANGED <<holdFrame, order_seq>>

\* resumeOrder(orderId) of SuspendedOrders
ResumeOrder(orderId) ==
    /\ OnPanel
    /\ Found(orderId)
    /\ \E error \in BOOLEAN :
        IF error
        THEN /\ toast' = Toast("none", "SuspendedOrders.resumeOrder", TRUE)
             /\ last' = Last("resumeOrder", orderId, FALSE)
             /\ UNCHANGED <<storeVars, suspended_orders, suspendedOrders>>
        ELSE /\ suspended_orders' = Delete(suspended_orders, orderId)
             /\ cart' = Find(orderId).items
             /\ suspendedOrders' = SuspendedOrdersOf(suspended_orders')
             /\ toast' = Toast("success", "SuspendedOrders.resumeOrder", FALSE)
             /\ last' = Last("resumeOrder", orderId, TRUE)
             /\ UNCHANGED <<selectedCustomer, paymentMethod, amountPaid, discount>>
    /\ UNCHANGED <<holdFrame, order_seq, showSuspendedOrders>>

\* deleteOrder(orderId) of SuspendedOrders
deleteOrder(orderId) ==
    /\ OnPanel
    /\ Found(orderId)
    /\ \E error \in BOOLEAN :
        IF error
        THEN /\ toast' = Toast("none", "SuspendedOrders.deleteOrder", TRUE)
             /\ UNCHANGED <<suspended_orders, suspendedOrders>>
        ELSE /\ suspended_orders' = Delete(suspended_orders, orderId)
             /\ suspendedOrders' = SuspendedOrdersOf(suspended_orders')
             /\ toast' = Toast("success", "SuspendedOrders.deleteOrder", FALSE)
    /\ last' = Other("deleteOrder")
    /\ UNCHANGED <<holdFrame, storeVars, order_seq, showSuspendedOrders>>

InitHold == InitWith(FullStock, <<>>)

NextHold ==
    \/ \E p \in Products : POSAddToCart(p)
    \/ \E p \in Products : POSRemoveFromCart(p)
    \/ \E p \in Products, price \in PriceInputs : POSUpdatePrice(p, price)
    \/ \E c \in Customers : SelectCustomer(c)
    \/ \E p \in Products : handleAddToCart(p)
    \/ \E p \in Products : CartRemove(p)
    \/ SuspendedOrdersQuery
    \/ POSSuspendOrder
    \/ HoldOrder
    \/ \E shown \in BOOLEAN : SetShowSuspendedOrders(shown)
    \/ \E orderId \in 1..MaxOrders : POSResumeOrder(orderId)
    \/ \E orderId \in 1..MaxOrders : ResumeOrder(orderId)
    \/ \E orderId \in 1..MaxOrders : deleteOrder(orderId)

SpecHold == InitHold /\ [][NextHold]_vars

\* the row of id orderId in the table rows
RowOf(rows, orderId) == rows[CHOOSE i \in 1..Len(rows) : rows[i].id = orderId]

\* the ids of the table rows
IdsOf(rows) == {rows[i].id : i \in 1..Len(rows)}

\* C15: a suspend stores the lines of the cart, in order, in a new
\* suspended_orders row; the row keeps those lines for as long as it is there;
\* a resume of that order makes the cart those lines again (same products,
\* prices, quantities and subtotals, in the same order) and leaves no
\* suspended_orders row of that order
C15_HoldResumeRoundTrip ==
    [][/\ (last'.op = "suspendOrder" /\ last'.ok /\ last' # last) =>
            /\ cart # <<>>
            /\ last'.arg \notin IdsOf(suspended_orders)
            /\ last'.arg \in IdsOf(suspended_orders')
            /\ RowOf(suspended_orders', last'.arg).items = cart
       /\ \A id \in IdsOf(suspended_orders) \cap IdsOf(suspended_orders') :
            RowOf(suspended_orders', id).items = RowOf(suspended_orders, id).items
       /\ (last'.op = "resumeOrder" /\ last'.ok /\ last' # last) =>
            /\ cart' = RowOf(suspended_orders, last'.arg).items
            /\ last'.arg \notin IdsOf(suspended_orders')]_vars

\* a cart of two lines was suspended and resumed, and is the cart again
C15_Witness ==
    /\ last.op = "resumeOrder"
    /\ last.ok
    /\ Len(cart) = 2
    /\ cart[1].product_id = "p2"
    /\ cart[2].price = 0
    /\ suspended_orders = <<>>
    /\ order_seq = 1

----------------------------------------------------------------------------
(* ShiftModal: the close-register form and its variance preview *)

\* x || 0 for a number column that may be null
OrZero(x) == IF x \in {JsonNull, NaN, 0} THEN 0 ELSE x

\* expected cash without the cash sales
ExpectedCash_IgnoresSales(shift) == shift.opening_balance

\* currentShift.opening_balance + (currentShift.cash_sales_total || 0)
ExpectedCash(shift) == shift.opening_balance + OrZero(shift.cash_sales_total)

\* parseFloat(closingBalance) as a number, NaN included
ParsedNumber(text) == IF ParseFloat(text).nan THEN NaN ELSE ParseFloat(text).value

\* parseFloat(closingBalance) - (opening_balance + (cash_sales_total || 0))
Variance(shift, closingBalance) == Minus(ParsedNumber(closingBalance), ExpectedCash(shift))

\* the variance box of the close form
VariancePreview(shift, closingBalance) ==
    LET variance == Variance(shift, closingBalance) IN
    [shown |-> closingBalance # <<>>,
     variance |-> variance,
     colour |-> IF variance # NaN /\ variance >= 0 THEN "green" ELSE "red",
     text |-> IF variance # NaN /\ variance > 0 THEN "Cash over (surplus)"
              ELSE IF variance # NaN /\ variance < 0 THEN "Cash short (shortage)"
              ELSE "Perfect balance!"]

\* the open shifts the 'current-shift' query may return, amounts in hundredths
ShiftInputs ==
    {[open |-> TRUE, opening_balance |-> o, cash_sales_total |-> s] :
        o \in {0, 5050, 10000}, s \in {JsonNull, 0, 2500, 5000}}

\* what a cashier may enter as the closing balance, and the amount it stands for
ClosingInputs ==
    { [text |-> <<"0">>, amount |-> 0],
      [text |-> <<"1", "0", "0">>, amount |-> 10000],
      [text |-> <<"1", "2", "5">>, amount |-> 12500],
      [text |-> <<"1", "5", "0", ".", "5">>, amount |-> 15050],
      [text |-> <<"7", "5", ".", "2", "5">>, amount |-> 7525],
      [text |-> <<"5", "0", ".", "5", "0">>, amount |-> 5050],
      [text |-> <<"-", "5">>, amount |-> 0 - 500] }

\* the 'current-shift' query of the dialog returns the cashier's open shift
CurrentShiftQuery(shift) ==
    /\ closeForm' = [closeForm EXCEPT !.shift = shift]
    /\ UNCHANGED <<exceptPages, session, usersVars, creditVars, poVars>>

\* the closing balance field: setClosingBalance(e.target.value)
setClosingBalance(text) ==
    /\ closeForm.shift.open
    /\ closeForm' = [closeForm EXCEPT !.closingBalance = text]
    /\ UNCHANGED <<exceptPages, session, usersVars, creditVars, poVars>>

InitClose == InitWith(InitStock, <<>>)

NextClose ==
    \/ \E shift \in ShiftInputs : CurrentShiftQuery(shift)
    \/ \E input \in ClosingInputs : setClosingBalance(input.text)
    \/ setClosingBalance(<<>>)

SpecClose == InitClose /\ [][NextClose]_vars

\* the amount the entered text stands for
Entered == (CHOOSE input \in ClosingInputs : input.text = closeForm.closingBalance).amount

\* the cash sales of the shift in the form, a missing total counted as 0
CashSales ==
    IF closeForm.shift.cash_sales_total = JsonNull THEN 0
    ELSE closeForm.shift.cash_sales_total

\* C16: for an open shift and an entered closing balance c, the close form
\* shows the variance c - (opening_balance + cash_sales_total), a missing
\* cash_sales_total counted as 0, and describes it as surplus when above 0,
\* shortage when below 0 and perfect balance when 0
C16_VarianceShown ==
    (closeForm.shift.open /\ closeForm.closingBalance # <<>>) =>
        LET preview == VariancePreview(closeForm.shift, closeForm.closingBalance)
            expected == Entered - (closeForm.shift.opening_balance + CashSales)
        IN /\ preview.shown
           /\ preview.variance = expected
           /\ expected > 0 => preview.text = "Cash over (surplus)"
           /\ expected < 0 => preview.text = "Cash short (shortage)"
           /\ expected = 0 => preview.text = "Perfect balance!"

\* a closing balance of 150.50 against 50.50 opening and no cash sales total
C16_Witness ==
    /\ closeForm.shift.open
    /\ closeForm.shift.opening_balance = 5050
    /\ closeForm.shift.cash_sales_total = JsonNull
    /\ closeForm.closingBalance = <<"1", "5", "0", ".", "5">>
    /\ VariancePreview(closeForm.shift, closeForm.closingBalance).variance = 10000
    /\ VariancePreview(closeForm.shift, closeForm.closingBalance).text = "Cash over (surplus)"

\* C17: whenever the backend call of a mutation fails, an error toast is
\* shown
C17_FailureShowsErrorToast == toast.failed => toast.kind = "error"

----------------------------------------------------------------------------
(* completeSale.mutationFn of the POS page over the states it tests for *)

\* auth with nobody signed in
SignedOut == [loading |-> FALSE, user |-> NULL, profile |-> NoProfile]

\* a cart of one line
OneLine == <<[product_id |-> "p1", product_name |-> "p1", sku |-> "p1",
              price |-> ProductPrice["p1"], quantity |-> 1,
              subtotal |-> ProductPrice["p1"], stock_available |-> InitStock["p1"]]>>

\* what mutationFn may be handed: the payment dialog open over an empty or
\* a filled cart, with or without a shift id, a session and a context user
MutationInputs ==
    [cart : {<<>>, OneLine}, currentShiftId : {NULL, "1"},
     showSplitPayment : {TRUE}, auth : {SignedIn, SignedOut},
     session : {NULL, Cashier}, profiles : {Staff}]

InitReject ==
    /\ \E given \in MutationInputs : InitFrom(InitStock, <<OpenedShift>>, given)
    /\ view = "POSPage"

NextReject ==
    \/ addPaymentMethod
    \/ \E i \in 1..MaxPayments : removePaymentMethod(i)
    \/ \E i \in 1..MaxPayments, t \in PaymentTypes : updatePaymentType(i, t)
    \/ \E i \in 1..MaxPayments, a \in AmountInputs : updatePaymentAmount(i, a)
    \/ FullAmount
    \/ \E i \in 1..MaxPayments : Remaining(i)
    \/ handleConfirm

SpecReject == InitReject /\ [][NextReject]_vars

\* C18: a completeSale of the POS page with an empty cart, without a shift id,
\* or with a user id from neither the session nor the auth context, is
\* rejected: no sales, sale_items, products or customers row is written and
\* the cart is unchanged
C18_RejectsBeforeWrite ==
    [][(/\ last'.op = "completeSale"
        /\ last'.arg = "POSPage"
        /\ last' # last
        /\ \/ cart = <<>>
           \/ currentShiftId["a"] = NULL
           \/ (session = NULL /\ auth.user = NULL)) =>
        /\ ~last'.ok
        /\ ~last'.inserted
        /\ sales' = sales
        /\ sale_items' = sale_items
        /\ stock' = stock
        /\ outstanding_balance' = outstanding_balance
        /\ cart' = cart]_vars

\* a fully paid completeSale was rejected for want of a user id alone
C18_Witness ==
    /\ last.op = "completeSale"
    /\ last.arg = "POSPage"
    /\ ~last.ok
    /\ cart = OneLine
    /\ currentShiftId["a"] # NULL
    /\ session = NULL
    /\ auth.user = NULL
    /\ last.paid >= last.total
    /\ sales = 0

----------------------------------------------------------------------------
(* UsersPage: the action buttons of a user row, toggleActive and deleteUser *)

\* canManage
canManage == auth.profile.role = "owner" \/ auth.profile.role = "admin"

\* the condition under which the row of user u shows the delete button
DeleteOffered(u) ==
    /\ canManage
    /\ profiles[u].present
    /\ u # auth.user
    /\ \/ auth.profile.role = "owner"
       \/ (auth.profile.role = "admin" /\ profiles[u].role # "owner")

\* the condition under which the row of user u shows the activate switch
ToggleOffered(u) ==
    /\ canManage
    /\ profiles[u].present
    /\ u # auth.user

\* what a users handler leaves alone
usersFrame == <<view, authVars, csvVars, suspendedOrders, order_seq,
                showSuspendedOrders, calculator, storeVars, pageVars, dbVars,
                shiftVars, run, closeVars, creditVars, poVars>>

\* the delete button of a row: setConfirmDelete(u)
setConfirmDelete(u) ==
    /\ confirmDelete = NULL
    /\ DeleteOffered(u)
    /\ confirmDelete' = u
    /\ last' = Other("setConfirmDelete")
    /\ UNCHANGED <<usersFrame, profiles, toast>>

\* Cancel of the confirmation dialog
CancelDelete ==
    /\ confirmDelete # NULL
    /\ confirmDelete' = NULL
    /\ last' = Other("setConfirmDelete")
    /\ UNCHANGED <<usersFrame, profiles, toast>>

\* the delete_user_completely remote procedure: the profile is gone
delete_user_completely(userId) == [profiles EXCEPT ![userId].present = FALSE]

\* the Delete button of the confirmation dialog: deleteUser.mutate(id)
deleteUser ==
    /\ confirmDelete # NULL
    /\ \E error \in BOOLEAN :
        IF error
        THEN /\ toast' = Toast("error", "UsersPage.deleteUser", TRUE)
             /\ last' = Last("deleteUser", confirmDelete, FALSE)
             /\ UNCHANGED <<profiles, confirmDelete>>
        ELSE /\ profiles' = delete_user_completely(confirmDelete)
             /\ confirmDelete' = NULL
             /\ toast' = Toast("success", "UsersPage.deleteUser", FALSE)
             /\ last' = Last("deleteUser", confirmDelete, TRUE)
    /\ UNCHANGED usersFrame

\* the activate switch of a row: toggleActive.mutate({id, is_active})
toggleActive(u) ==
    /\ confirmDelete = NULL
    /\ ToggleOffered(u)
    /\ \E error \in BOOLEAN :
        IF error
        THEN /\ toast' = Toast("none", "UsersPage.toggleActive", TRUE)
             /\ UNCHANGED profiles
        ELSE /\ profiles' = [profiles EXCEPT ![u].is_active = ~profiles[u].is_active]
             /\ toast' = Toast("success", "UsersPage.toggleActive", FALSE)
    /\ last' = Other("toggleActive")
    /\ UNCHANGED <<usersFrame, confirmDelete>>

\* the users page opened by the user u1 in each role, over each staff
UsersInputs ==
    {[AsMounted EXCEPT
        !.auth = [SignedIn EXCEPT !.profile = ProfileOf(r1, TRUE)],
        !.profiles = [u \in UserIds |-> IF u = "u1" THEN Row(r1, TRUE)
                                       ELSE IF u = "u2" THEN Row(r2, TRUE)
                                       ELSE Row(r3, TRUE)]] :
        r1 \in UserRoles, r2 \in UserRoles, r3 \in UserRoles}

InitUsers ==
    /\ \E given \in UsersInputs : InitFrom(InitStock, <<>>, given)
    /\ view = "POSPage"

NextUsers ==
    \/ \E u \in UserIds : setConfirmDelete(u)
    \/ CancelDelete
    \/ deleteUser
    \/ \E u \in UserIds : toggleActive(u)

SpecUsers == InitUsers /\ [][NextUsers]_vars

\* C19: the delete action on a user is offered only to an owner and never on
\* the current user's own account, so only an owner ever deletes a user
C19_OnlyOwnerDeletes ==
    /\ \A u \in UserIds :
          DeleteOffered(u) => (auth.profile.role = "owner" /\ u # auth.user)
    /\ confirmDelete # NULL =>
          (auth.profile.role = "owner" /\ confirmDelete # auth.user)
    /\ (last.op = "deleteUser" /\ last.ok) => auth.profile.role = "owner"

----------------------------------------------------------------------------
(* MySalesPage: the credit sales of today and the clearing of a credit *)

\* a sales row as the page reads it; a column the insert did not name is null
SaleOf(row) ==
    [id |-> row.sale_number, customer_id |-> row.customer_id,
     payment_method |-> row.payment_method,
     credit_amount |-> IF "credit_amount" \in DOMAIN row THEN row.credit_amount
                       ELSE JsonNull,
     total |-> row.total]

\* today's rows of the sales table, while the sale just written is the only one
SalesToday == IF RowWritten /\ sales = 1 THEN <<SaleOf(last.row)>> ELSE <<>>

\* Number(x) for a number column: null counts as 0
NumberOf(x) == IF x = JsonNull THEN 0 ELSE x

\* sale.payment_method === 'credit' || Number(sale.credit_amount) > 0
IsCreditSale(sale) ==
    sale.payment_method = "credit" \/ Less(0, NumberOf(sale.credit_amount))

\* creditSales
creditSales(rows) == SelectSeq(rows, IsCreditSale)

\* Number(sale.credit_amount || sale.total)
Owed(sale) == IF OrZero(sale.credit_amount) # 0 THEN sale.credit_amount ELSE sale.total

\* what a handler of the page leaves alone
creditFrame == <<view, authVars, csvVars, suspendedOrders, order_seq,
                 showSuspendedOrders, calculator, storeVars, pageVars, stock,
                 sales, sale_items, suspended_orders, shiftVars, run, last,
                 closeVars, usersVars, poVars>>

\* the ['my-sales'] query returns
MySalesQuery ==
    /\ sales = 0 \/ RowWritten
    /\ mySales' = [loaded |-> TRUE, creditSales |-> creditSales(SalesToday)]
    /\ UNCHANGED <<creditFrame, outstanding_balance, toast, clearing>>

\* the Clear Credit button of row i of the credit table
ClearCredit(i) ==
    /\ ~clearing.open
    /\ i \in 1..Len(mySales.creditSales)
    /\ clearing' = [open |-> TRUE, sale |-> mySales.creditSales[i],
                    paymentAmount |-> IntToString(Owed(mySales.creditSales[i])),
                    result |-> "none", amount |-> 0, read |-> 0]
    /\ UNCHANGED <<creditFrame, outstanding_balance, toast, mySales>>

\* the amount field of the dialog
setPaymentAmount(text) ==
    /\ clearing.open
    /\ clearing' = [clearing EXCEPT !.paymentAmount = text]
    /\ UNCHANGED <<creditFrame, outstanding_balance, toast, mySales>>

\* Cancel of the dialog
CancelClearing ==
    /\ clearing.open
    /\ clearing' = NotClearing
    /\ UNCHANGED <<creditFrame, outstanding_balance, toast, mySales>>

\* the new balance without the floor at 0
NewBalance_NoFloor(balance, amount) == balance - amount

\* Math.max(0, balance - amount)
NewBalance(balance, amount) == IF balance - amount > 0 THEN balance - amount ELSE 0

\* Confirm Payment: the checks of the button, then clearCredit.mutate with its
\* mutationFn, onSuccess and onError; amounts are whole
ConfirmPayment ==
    /\ clearing.open
    /\ clearing.paymentAmount # <<>>
    /\ ~(ParsedNumber(clearing.paymentAmount) # NaN
         /\ ParsedNumber(clearing.paymentAmount) <= 0)
    /\ LET parsed == ParsedNumber(clearing.paymentAmount)
           amount == parsed \div 100
       IN
       IF parsed = NaN \/ parsed <= 0
       THEN /\ clearing' = [clearing EXCEPT !.result = "Enter a valid amount"]
            /\ toast' = Toast("error", "MySalesPage.clearCredit", FALSE)
            /\ UNCHANGED <<outstanding_balance, mySales>>
       ELSE IF clearing.sale.customer_id = NULL
       THEN /\ clearing' = [clearing EXCEPT
                               !.result = "No customer linked to this sale"]
            /\ toast' = Toast("error", "MySalesPage.clearCredit", FALSE)
            /\ UNCHANGED <<outstanding_balance, mySales>>
       ELSE \E error \in BOOLEAN :
            IF error
            THEN /\ clearing' = [clearing EXCEPT !.result = "failed"]
                 /\ toast' = Toast("error", "MySalesPage.clearCredit", TRUE)
                 /\ UNCHANGED <<outstanding_balance, mySales>>
            ELSE /\ outstanding_balance' =
                        [outstanding_balance EXCEPT
                            ![clearing.sale.customer_id] =
                                NewBalance(@, amount)]
                 /\ clearing' = [NotClearing EXCEPT
                                   !.result = "cleared",
                                   !.amount = amount,
                                   !.read = outstanding_balance[clearing.sale.customer_id]]
                 /\ toast' = Toast("success", "MySalesPage.clearCredit", FALSE)
                 /\ UNCHANGED mySales
    /\ UNCHANGED creditFrame

\* what is typed into the amount field
PaymentInputs == {<<>>, <<"0">>, <<"5", "0">>, <<"2", "0", "0">>}

InitCredit == InitWith(InitStock, <<OpenedShift>>)

NextCredit ==
    \/ \E p \in Products : handleAddToCart(p)
    \/ \E p \in Products : POSAddToCart(p)
    \/ \E c \in Customers \cup {NULL} : SelectCustomer(c)
    \/ \E m \in PaymentMethods : SetPaymentMethod(m)
    \/ PanelCompleteSale
    \/ POSCheckShift
    \/ MultiplePay
    \/ \E i \in 1..MaxPayments, t \in PaymentTypes : updatePaymentType(i, t)
    \/ FullAmount
    \/ handleConfirm
    \/ MySalesQuery
    \/ \E i \in 1..MaxSales : ClearCredit(i)
    \/ \E text \in PaymentInputs : setPaymentAmount(text)
    \/ CancelClearing
    \/ ConfirmPayment

SpecCredit == InitCredit /\ [][NextCredit]_vars

\* C20: every sale listed in creditSales has a customer, and a Confirm
\* Payment on a listed sale with an amount above 0 is never rejected with
\* 'No customer linked to this sale'
C20_ListedCreditsHaveCustomer ==
    /\ \A i \in 1..Len(mySales.creditSales) :
          mySales.creditSales[i].customer_id # NULL
    /\ clearing.result # "No customer linked to this sale"

----------------------------------------------------------------------------
(* PurchaseOrdersPage: receivePO, one await at a time, and the Mark Received
   button that starts it *)

MaxReceives == 3     \* calls of receivePO.mutate in one run

\* the rows of purchase_order_items of an order
purchase_order_items(po) ==
    IF po = "po1"
    THEN <<[product_id |-> "p1", quantity |-> 1],
           [product_id |-> "p2", quantity |-> MaxQty]>>
    ELSE <<[product_id |-> "p1", quantity |-> MaxQty]>>

\* what a step of receivePO leaves alone
receiveFrame == <<view, authVars, csvVars, suspendedOrders, order_seq,
                  showSuspendedOrders, closeVars, usersVars, creditVars,
                  calculator, storeVars, pageVars, sales, sale_items,
                  outstanding_balance, suspended_orders, shiftVars, run, last>>

\* the ['purchase-orders'] query fetches the orders
PurchaseOrdersQuery ==
    /\ purchaseOrders' = [loaded |-> TRUE, status |-> purchase_orders]
    /\ UNCHANGED <<receiveFrame, toast, stock, purchase_orders, receiving,
                   receive_seq>>

\* the Mark Received button of a row whose fetched status is 'pending':
\* receivePO.mutate(po.id).  The button is not disabled while a call runs.
MarkReceived(m, po) ==
    /\ purchaseOrders.loaded
    /\ purchaseOrders.status[po] = "pending"
    /\ receiving[m].pc \in {"idle", "done", "failed"}
    /\ receive_seq < MaxReceives
    /\ receiving' = [receiving EXCEPT ![m] =
                        [NotReceiving EXCEPT !.pc = "items", !.po = po]]
    /\ receive_seq' = receive_seq + 1
    /\ UNCHANGED <<receiveFrame, toast, stock, purchase_orders, purchaseOrders>>

\* the select of the order's purchase_order_items; itemsError is thrown
ReceiveItems(m) ==
    /\ receiving[m].pc = "items"
    /\ \E itemsError \in BOOLEAN :
          IF itemsError
          THEN /\ receiving' = [receiving EXCEPT ![m].pc = "failed"]
               /\ toast' = Toast("error", "receivePO", TRUE)
          ELSE /\ LET items == purchase_order_items(receiving[m].po) IN
                  receiving' = [receiving EXCEPT
                                   ![m].items = items,
                                   ![m].i = 1,
                                   ![m].pc = IF items = <<>> THEN "status"
                                             ELSE "rpc"]
               /\ UNCHANGED toast
    /\ UNCHANGED <<receiveFrame, stock, purchase_orders, purchaseOrders,
                   receive_seq>>

\* the loop moves on to the next item, or leaves for the status update
AfterItem(r) ==
    [r EXCEPT !.i = r.i + 1,
              !.pc = IF r.i < Len(r.items) THEN "rpc" ELSE "status"]

\* await supabase.rpc('increment_stock'), which adds the quantity or returns
\* updateError
ReceiveRpc(m) ==
    /\ receiving[m].pc = "rpc"
    /\ LET item == receiving[m].items[receiving[m].i] IN
       \E updateError \in BOOLEAN :
          IF updateError
          THEN /\ receiving' = [receiving EXCEPT ![m].pc = "read"]
               /\ UNCHANGED stock
          ELSE /\ stock' = increment_stock(stock, item.product_id, item.quantity)
               /\ receiving' = [receiving EXCEPT ![m] = AfterItem(receiving[m])]
    /\ UNCHANGED <<receiveFrame, toast, purchase_orders, purchaseOrders,
                   receive_seq>>

\* the fallback's select of products.stock_quantity; when it fails product is
\* null and product.stock_quantity throws
ReceiveSelect(m) ==
    /\ receiving[m].pc = "read"
    /\ LET item == receiving[m].items[receiving[m].i] IN
       \E error \in BOOLEAN :
          IF error
          THEN /\ receiving' = [receiving EXCEPT ![m].pc = "failed"]
               /\ toast' = Toast("error", "receivePO", TRUE)
          ELSE /\ receiving' = [receiving EXCEPT ![m].pc = "write",
                                                 ![m].read = stock[item.product_id]]
               /\ UNCHANGED toast
    /\ UNCHANGED <<receiveFrame, stock, purchase_orders, purchaseOrders,
                   receive_seq>>

\* the fallback's update of products.stock_quantity; its result is not read
ReceiveUpdate(m) ==
    /\ receiving[m].pc = "write"
    /\ LET item == receiving[m].items[receiving[m].i] IN
       \E error \in BOOLEAN :
          stock' = IF error THEN stock
                   ELSE [stock EXCEPT ![item.product_id] =
                            ReceiveFallbackValue(receiving[m].read, item.quantity)]
    /\ receiving' = [receiving EXCEPT ![m] = AfterItem(receiving[m])]
    /\ UNCHANGED <<receiveFrame, toast, purchase_orders, purchaseOrders,
                   receive_seq>>

\* 'Mark PO as received': the update of purchase_orders; poError is thrown.
\* onSuccess invalidates ['purchase-orders'], which fetches the orders again.
ReceiveStatus(m) ==
    /\ receiving[m].pc = "status"
    /\ \E poError \in BOOLEAN :
          IF poError
          THEN /\ receiving' = [receiving EXCEPT ![m].pc = "failed"]
               /\ toast' = Toast("error", "receivePO", TRUE)
               /\ UNCHANGED <<purchase_orders, purchaseOrders>>
          ELSE /\ purchase_orders' =
                     [purchase_orders EXCEPT ![receiving[m].po] = "received"]
               /\ purchaseOrders' = [loaded |-> TRUE, status |-> purchase_orders']
               /\ receiving' = [receiving EXCEPT ![m].pc = "done"]
               /\ toast' = Toast("success", "receivePO", FALSE)
    /\ UNCHANGED <<receiveFrame, stock, receive_seq>>

InitReceive == InitWith(InitStock, <<>>) /\ view = "POSPage"

NextReceive ==
    \/ PurchaseOrdersQuery
    \/ \E m \in Calls, po \in PurchaseOrderIds : MarkReceived(m, po)
    \/ \E m \in Calls : ReceiveItems(m)
    \/ \E m \in Calls : ReceiveRpc(m)
    \/ \E m \in Calls : ReceiveSelect(m)
    \/ \E m \in Calls : ReceiveUpdate(m)
    \/ \E m \in Calls : ReceiveStatus(m)

SpecReceive == InitReceive /\ [][NextReceive]_vars

\* the call in place m passes an item of its order in this step
PassesItem(m) ==
    /\ receiving[m].pc \in {"rpc", "write"}
    /\ receiving'[m].i = receiving[m].i + 1

\* C21: every item a receivePO call passes has its quantity added to the
\* stock of its product (to the stock as it is when increment_stock runs, to
\* the value the fallback read otherwise); the status of an order changes
\* only to 'received', and only in the step of a call that has passed every
\* item of the order; a call whose select of the items fails changes neither
\* stock nor status.
C21_ReceiveAddsThenMarks ==
    [][\A m \in Calls :
          LET r == receiving[m] IN
          /\ PassesItem(m) =>
                LET item == r.items[r.i] IN
                stock'[item.product_id] =
                    (IF r.pc = "rpc" THEN stock[item.product_id] ELSE r.read)
                    + item.quantity
          /\ (/\ r.po # NULL
              /\ receiving'[m] # r
              /\ purchase_orders'[r.po] # purchase_orders[r.po]) =>
                /\ r.pc = "status"
                /\ r.i = Len(purchase_order_items(r.po)) + 1
                /\ purchase_orders'[r.po] = "received"
          /\ (r.pc = "items" /\ receiving'[m].pc = "failed") =>
                /\ stock' = stock
                /\ purchase_orders' = purchase_orders]_vars

\* the quantity the items hold for product p
RECURSIVE QuantityIn(_, _)
QuantityIn(items, p) ==
    IF items = <<>> THEN 0
    ELSE (IF Head(items).product_id = p THEN Head(items).quantity ELSE 0)
         + QuantityIn(Tail(items), p)

\* what the stock of p has grown by since the page was opened
Growth(p) == stock[p] - InitStock[p]

\* C25: whatever receive actions are taken, the stock of a product never
\* grows by more than the quantities the orders hold for it, each order
\* counted once.
C25_ReceivedAtMostOnce ==
    \A p \in Products :
        Growth(p) <= QuantityIn(purchase_order_items("po1"), p)
                     + QuantityIn(purchase_order_items("po2"), p)

\* a Confirm Payment that went through, and a step of the dialog that left it
\* open (a rejected Confirm Payment among them)
Cleared == clearing.open /\ clearing'.result = "cleared"
StaysOpen == clearing.open /\ clearing'.open /\ clearing' # clearing

C23_QuantityWithinStock ==
    \A i \in 1..Len(cart) : cart[i].quantity <= cart[i].stock_available

----------------------------------------------------------------------------
(* One cashier at the till of the POS page: opening and closing the register,
   and selling *)

InitTill == InitWith(InitStock, <<>>) /\ view = "POSPage"

NextTill ==
    \/ POSCheckShift
    \/ ManageShift("a")
    \/ fetchCurrentShift("a")
    \/ POSShiftModalClose
    \/ \E amount \in OpeningInputs : openShift("a", amount)
    \/ \E amount \in OpeningInputs : closeShift("a", amount)
    \/ NextDay
    \/ \E p \in Products : POSAddToCart(p)
    \/ MultiplePay
    \/ FullAmount
    \/ handleConfirm
    \/ ReceiptClose
    \/ ReceiptNewSale

SpecTill == InitTill /\ [][NextTill]_vars

\* C24: when the POS page inserts a sales row, the cashier_shifts row its
\* shift_id names has status 'open' and the cashier_id of the sale.
C24_SaleOnOpenShiftOfCashier ==
    [][(last'.op = "completeSale" /\ last'.arg = "POSPage" /\ last'.inserted) =>
          \E i \in 1..Len(cashier_shifts) :
              /\ cashier_shifts[i].id = last'.row.shift_id
              /\ cashier_shifts[i].status = "open"
              /\ cashier_shifts[i].cashier_id = last'.row.cashier_id]_vars

----------------------------------------------------------------------------
(* The cart of the POS page under every store action that writes it, with
   orders suspended and resumed *)

InitLines == InitWith(FullStock, <<>>) /\ view = "POSPage"

NextLines ==
    \/ \E p \in Products : POSAddToCart(p)
    \/ \E p \in Products : POSRemoveFromCart(p)
    \/ \E p \in Products, q \in QtyInputs : POSUpdateQuantity(p, q)
    \/ \E p \in Products, price \in PriceInputs : POSUpdatePrice(p, price)
    \/ POSCancel
    \/ SuspendedOrdersQuery
    \/ POSSuspendOrder
    \/ \E shown \in BOOLEAN : SetShowSuspendedOrders(shown)
    \/ \E orderId \in 1..MaxOrders : POSResumeOrder(orderId)

SpecLines == InitLines /\ [][NextLines]_vars

\* C26: no two lines of the cart have the same product_id.
C26_LinesUniquePerProduct ==
    \A i, j \in 1..Len(cart) :
        cart[i].product_id = cart[j].product_id => i = j

\* an order of two lines has been resumed into the cart, and a product of it
\* was then added again
C26_Witness ==
    /\ last.op = "addToCart" /\ last.ok
    /\ Len(cart) = 2
    /\ order_seq > 0
    /\ suspended_orders = <<>>
    /\ \E i \in 1..Len(cart) : cart[i].quantity = MaxQty

====
